---- MODULE Spec2Model ----
(***************************************************************************)
(* Event-sourced write path with transactional outbox, CDC relay, retry    *)
(* and circuit breaker (boniface/scylladb_cdc).                            *)
(*                                                                         *)
(* Three specifications share one state:                                   *)
(*   SpecStore - EventStore::append_events run by concurrent callers       *)
(*   SpecCB    - CircuitBreaker::call run by concurrent callers            *)
(*   SpecRelay - OutboxCDCConsumer::consume_cdc, retry, breaker and DLQ    *)
(***************************************************************************)
EXTENDS Integers, Sequences, FiniteSets, TLC

\* ------------------------------------------------------------------ bounds
MaxCalls == 2
MaxEvents == 2
MaxExpected == 1

MaxTicks == 4
MaxRows == 2
MaxGaps == 1
MaxAttempts == 3

Aggregates == {"A", "B"}
Callers == {"c1", "c2"}

\* What a caller put in its envelopes' sequence_number fields: a value that
\* is unrelated to the store's version.
CallerSeqBase == MaxExpected + MaxCalls * MaxEvents + 1

VARIABLES
    event_store,         \* rows of table event_store, PK (aggregate_id, sequence_number)
    outbox_messages,     \* rows of table outbox_messages, PK (id)
    aggregate_sequence,  \* rows of table aggregate_sequence, PK (aggregate_id)
    pending,             \* append_events calls that passed the check and hold a built batch
    lastCall,            \* the append_events call whose checks ran last, until its caller went on
    ops,                 \* history of the append_events calls that built a batch
    nextUuid,            \* source of fresh Uuid::new_v4() values
    breaker,             \* CircuitBreakerState behind the mutex
    config,              \* CircuitBreakerConfig of the breaker
    now,                 \* the monotonic clock (Instant::now()), in milliseconds
    cpc,                 \* per caller of CircuitBreaker::call: "idle" or "running"
    cadmit,              \* per caller: the breaker state in which it was admitted
    cresult,             \* per caller: what its last call returned
    consecutive,         \* failures recorded since the last recorded success or reset
    rpc,                 \* per consumer: position inside consume_cdc
    rrow,                \* per consumer: the OutboxEvent extracted from the CDC row
    attempt,             \* per consumer: retry_with_backoff's attempt
    delay,               \* per consumer: retry_with_backoff's delay, in milliseconds
    wake_at,             \* per consumer: when its sleep(delay) ends
    first_attempt_time,  \* per consumer: Utc::now() taken before the retry loop
    returned,            \* per consumer: what its last consume_cdc returned
    consumed,            \* number of CDC rows handed to consume_cdc so far
    finished,            \* the CDC rows whose consume_cdc returned, with the outcome
    broker,              \* the records the broker accepted
    dlq_mailbox,         \* AddToDlq messages sent to the DLQ actor, not yet handled
    dead_letter_queue,   \* rows of table dead_letter_queue, PK (id)
    dlq_lost,            \* ids whose DLQ insert failed and was only logged
    retry,               \* one retry_with_backoff call: its config, locals and history
    components,          \* HealthMonitorActor::components: the status kept per component
    latest_update,       \* per component: the status of the last UpdateHealth handled for it
    system_health,       \* the last SystemHealth reply to GetSystemHealth
    coordinator,         \* CoordinatorActor: its lifecycle state and its place in the Shutdown handler
    shutdown_requests,   \* Shutdown messages waiting in the coordinator's mailbox
    children,            \* per child actor: not started, running or stopped
    stop_mailbox,        \* per child actor: StopActor messages waiting in its mailbox
    stop_signals,        \* the children StopActor was sent to, in the order of the sends
    health_mailbox,      \* UpdateHealth messages waiting in the health monitor's mailbox
    handlers,            \* per command handler call: its command, what it read and how it ended
    load,                \* one load_from_events call: its implementation, its envelopes and its result
    fold,                \* one aggregate in memory: its state and the last command it handled
    probes,              \* ticks of the interval loop the health monitor's on_start spawned
    poller,              \* the polling relay's loop: its checkpoint, its seen ids, the batch of its poll
    outbox_created,      \* outbox_messages as the polling relay's query reads it: id and created_at
    redpanda             \* the broker of the polling relay: whether it accepts, and what it has accepted

storeVars == <<event_store, outbox_messages, aggregate_sequence, pending, lastCall,
               ops, nextUuid>>
retryVars == <<retry>>
healthVars == <<components, latest_update, system_health>>
orderVars == <<handlers>>
loadVars == <<load>>
foldVars == <<fold>>
taskVars == <<probes>>
pollVars == <<poller, outbox_created, redpanda>>
coordVars == <<coordinator, shutdown_requests, children, stop_mailbox, stop_signals, health_mailbox>>
cbVars == <<breaker, config, now, cpc, cadmit, cresult, consecutive>>
relayVars == <<rpc, rrow, attempt, delay, wake_at, first_attempt_time, returned,
               consumed, finished, broker, dlq_mailbox, dead_letter_queue, dlq_lost>>

\* ------------------------------------------------------------ event store

\* EventStore::get_current_version: the stored current_sequence, 0 when the
\* aggregate has no row.
get_current_version(a) ==
    IF \E r \in aggregate_sequence : r.aggregate_id = a
    THEN (CHOOSE r \in aggregate_sequence : r.aggregate_id = a).current_sequence
    ELSE 0

\* EventStore::aggregate_exists
aggregate_exists(a) == get_current_version(a) > 0

RECURSIVE SortBySeq(_)
SortBySeq(rows) ==
    IF rows = {} THEN <<>>
    ELSE LET first == CHOOSE r \in rows :
                          \A q \in rows : r.sequence_number <= q.sequence_number
         IN <<first>> \o SortBySeq(rows \ {first})

\* EventStore::load_events: SELECT ... WHERE aggregate_id = ? ORDER BY
\* sequence_number ASC.
load_events(a) == SortBySeq({r \in event_store : r.aggregate_id = a})

\* The topic the order event store is configured with and writes into the
\* topic column of its outbox rows.
OrderTopic == "order-events"

\* Uuid::to_string: the text of a uuid, a value of another type than the uuid.
UuidText(u) == <<"uuid-text", u>>

\* serialize_event: the JSON text of an event, tag first.
serialize_event(event_data) == <<"json", event_data.kind, event_data.items>>

\* serde_json::from_str of load_events: the event the JSON text stands for.
deserialize_event(json) == [kind |-> json[2], items |-> json[3]]

\* The event of the store's own callers, which carries no domain content.
TestEvent == [kind |-> "TestEvent", items |-> <<>>]

\* EventEnvelope::new as used by the callers: a fresh event_id per envelope
\* and the sequence number the caller computed.
NewEnvelopes(n, firstId, callerBase) ==
    [i \in 1..n |-> [event_id |-> firstId + i - 1,
                     sequence_number |-> callerBase + i,
                     event_type |-> "TestEvent",
                     event_data |-> TestEvent]]

\* The loop of append_events: new_version is incremented once per envelope
\* and is the sequence_number of the inserted row.
BatchEventRows(req) ==
    {[aggregate_id |-> req.aggregate_id,
      sequence_number |-> req.expected_version + i,
      event_id |-> req.events[i].event_id,
      event_type |-> req.events[i].event_type,
      event_data |-> serialize_event(req.events[i].event_data),
      op |-> req.op, idx |-> i, pub |-> req.publish_to_outbox]
     : i \in 1..Len(req.events)}

\* BatchOutboxRows with the outbox INSERT outside the loop over the envelopes.
BatchOutboxRows_FirstOnly(req) ==
    IF req.publish_to_outbox
    THEN {[id |-> req.outbox_ids[i],
           aggregate_id |-> req.aggregate_id,
           event_id |-> req.events[i].event_id,
           event_type |-> req.events[i].event_type,
           payload |-> serialize_event(req.events[i].event_data),
           topic |-> req.topic,
           partition_key |-> UuidText(req.aggregate_id),
           attempts |-> 0,
           op |-> req.op]
          : i \in {1}}
    ELSE {}

\* One outbox row per envelope, with a fresh id, only if publish_to_outbox.
BatchOutboxRows(req) ==
    IF req.publish_to_outbox
    THEN {[id |-> req.outbox_ids[i],
           aggregate_id |-> req.aggregate_id,
           event_id |-> req.events[i].event_id,
           event_type |-> req.events[i].event_type,
           payload |-> serialize_event(req.events[i].event_data),
           topic |-> req.topic,
           partition_key |-> UuidText(req.aggregate_id),
           attempts |-> 0,
           op |-> req.op]
          : i \in 1..Len(req.events)}
    ELSE {}

\* The last statement of the batch: upsert of the aggregate's sequence row.
BatchSequenceRow(req) ==
    [aggregate_id |-> req.aggregate_id,
     current_sequence |-> req.expected_version + Len(req.events)]

\* INSERT without IF NOT EXISTS is an upsert on the primary key.
UpsertEvents(table, rows) ==
    {r \in table : ~ \E n \in rows : /\ n.aggregate_id = r.aggregate_id
                                     /\ n.sequence_number = r.sequence_number}
    \cup rows

\* UpsertSequence on a table keyed by nothing: the row replaces the table.
UpsertSequence_OneRow(table, row) == {row}

UpsertSequence(table, row) ==
    {r \in table : r.aggregate_id # row.aggregate_id} \cup {row}

\* VersionMatches that rejects only a caller that is ahead of the store.
VersionMatches_StaleAccepted(current_version, expected_version) ==
    current_version >= expected_version

\* The optimistic concurrency check of append_events.
VersionMatches(current_version, expected_version) ==
    current_version = expected_version

SetStatus(o, s) == [ops EXCEPT ![o].status = s]

\* No call is being observed.
NoCall == [mismatch |-> FALSE, empty |-> FALSE, result |-> "none"]

\* What is kept of a call: whether expected_version differed from the current
\* version when it read it, whether its list was empty, and how its checks ended.
CallRecord(a, v, n, result) ==
    [mismatch |-> get_current_version(a) # v, empty |-> (n = 0), result |-> result]

\* EmptyList that lets every list pass.
EmptyList_Never(events) == FALSE

\* events.is_empty(), the first test of append_events.
EmptyList(events) == Len(events) = 0

\* append_events up to the batch: reject an empty list, read the current
\* version, compare it with expected_version, build the batch (which draws
\* the outbox ids).  The envelopes take the next n uuids as event ids.
AppendChecksUpTo(limit, topic_name, a, v, events, pub) ==
    LET n == Len(events) IN
    /\ lastCall = NoCall
    /\ IF EmptyList(events)
       THEN /\ lastCall' = CallRecord(a, v, n, "empty")
            /\ UNCHANGED <<pending, ops, nextUuid>>
       ELSE IF ~ VersionMatches(get_current_version(a), v)
       THEN /\ lastCall' = CallRecord(a, v, n, "conflict")
            /\ UNCHANGED <<pending, ops, nextUuid>>
       ELSE /\ Len(ops) < limit
            /\ ops' = Append(ops, [aggregate_id |-> a, expected_version |-> v,
                                   n |-> n, pub |-> pub, status |-> "pending"])
            /\ nextUuid' = nextUuid + n + (IF pub THEN n ELSE 0)
            /\ pending' = pending \cup
                  {[aggregate_id |-> a, expected_version |-> v,
                    events |-> events,
                    topic |-> topic_name,
                    outbox_ids |-> IF pub THEN [i \in 1..n |-> nextUuid + n + i - 1] ELSE <<>>,
                    publish_to_outbox |-> pub,
                    op |-> Len(ops) + 1]}
            /\ lastCall' = CallRecord(a, v, n, "batch")
    /\ UNCHANGED <<event_store, outbox_messages, aggregate_sequence>>

\* The same with at most MaxCalls calls that build a batch.
AppendChecks(topic_name, a, v, events, pub) ==
    AppendChecksUpTo(MaxCalls, topic_name, a, v, events, pub)

\* A caller of the store appends n envelopes it has just made.
AppendBegin(a, v, n, pub) ==
    AppendChecks(OrderTopic, a, v, NewEnvelopes(n, nextUuid, CallerSeqBase), pub)

\* session.batch(&batch, values) succeeds: every statement of the batch is
\* applied; append_events returns Ok(new_version).
AppendBatch(req) ==
    /\ req \in pending
    /\ event_store' = UpsertEvents(event_store, BatchEventRows(req))
    /\ outbox_messages' = outbox_messages \cup BatchOutboxRows(req)
    /\ aggregate_sequence' = UpsertSequence(aggregate_sequence, BatchSequenceRow(req))
    /\ ops' = SetStatus(req.op, "ok")
    /\ pending' = pending \ {req}
    /\ UNCHANGED <<lastCall, nextUuid>>

\* session.batch fails: nothing of the batch is applied and the error is
\* returned to the caller.
AppendBatchError(req) ==
    /\ req \in pending
    /\ ops' = SetStatus(req.op, "storage_error")
    /\ pending' = pending \ {req}
    /\ UNCHANGED <<event_store, outbox_messages, aggregate_sequence, lastCall, nextUuid>>

\* The caller of the call whose checks ran last goes on: with the error of a
\* rejected call, or into the batch.
CallObserved ==
    /\ lastCall # NoCall
    /\ lastCall' = NoCall
    /\ UNCHANGED <<event_store, outbox_messages, aggregate_sequence, pending, ops, nextUuid>>

StoreInit ==
    /\ event_store = {}
    /\ outbox_messages = {}
    /\ aggregate_sequence = {}
    /\ pending = {}
    /\ lastCall = NoCall
    /\ ops = <<>>
    /\ nextUuid = 1

\* ----------------------------------------------------- domain aggregates

Ok(v) == [ok |-> TRUE, value |-> v]
Err(e) == [ok |-> FALSE, error |-> e]

Domains == {"Order", "Customer"}

\* The item lists of the commands, as the quantities of their items.
ItemLists == {<<>>, <<1>>, <<0>>}

\* OrderCommand.  `items` is empty for the commands without items.
OrderCommands ==
    {[name |-> n, items |-> it] : n \in {"CreateOrder", "UpdateItems"}, it \in ItemLists}
    \cup {[name |-> n, items |-> <<>>] :
             n \in {"ConfirmOrder", "ShipOrder", "DeliverOrder", "CancelOrder"}}

\* The CustomerCommands whose outcome depends on the status only, with
\* names and e-mail that pass validation. ChangeEmail is the command whose
\* new_email is the customer's current e-mail.
CustomerCommands ==
    {[name |-> n, items |-> <<>>] :
        n \in {"RegisterCustomer", "UpdateProfile", "ChangeEmail", "SuspendCustomer",
               "ReactivateCustomer", "DeactivateCustomer"}}

CommandsOf(d) == IF d = "Order" THEN OrderCommands ELSE CustomerCommands

\* The variants of OrderEvent and of CustomerEvent the commands above emit.
EventKinds(d) ==
    IF d = "Order"
    THEN {"Created", "ItemsUpdated", "Confirmed", "Shipped", "Delivered", "Cancelled"}
    ELSE {"Registered", "ProfileUpdated", "Suspended", "Reactivated", "Deactivated"}

\* The topic main configures the event store of a domain with.
TopicOf(d) == IF d = "Order" THEN OrderTopic ELSE "customer-events"

\* OrderAggregate::validate_items
validate_items(items) ==
    IF items = <<>> THEN Err("EmptyItems")
    ELSE IF \E i \in 1..Len(items) : items[i] <= 0 THEN Err("InvalidQuantity")
    ELSE Ok(TRUE)

\* apply_first_event of OrderAggregate and CustomerAggregate.
apply_first_event(d, event) ==
    IF d = "Order"
    THEN IF event.kind = "Created"
         THEN Ok([version |-> 0, status |-> "Created", items |-> event.items])
         ELSE Err("NotInitialized")
    ELSE IF event.kind = "Registered"
         THEN Ok([version |-> 0, status |-> "Active", items |-> <<>>])
         ELSE Err("NotInitialized")

\* OrderAggregate::apply_event; it returns Ok for every event and leaves the
\* version alone.
OrderApplyEvent(agg, event) ==
    CASE event.kind = "Created" -> agg
      [] event.kind = "ItemsUpdated" -> [agg EXCEPT !.items = event.items]
      [] event.kind = "Confirmed" -> [agg EXCEPT !.status = "Confirmed"]
      [] event.kind = "Shipped" -> [agg EXCEPT !.status = "Shipped"]
      [] event.kind = "Delivered" -> [agg EXCEPT !.status = "Delivered"]
      [] event.kind = "Cancelled" -> [agg EXCEPT !.status = "Cancelled"]

\* CustomerAggregate::apply_event; it returns Ok for every event and adds
\* one to the version.
CustomerApplyEvent(agg, event) ==
    LET applied ==
          CASE event.kind = "Suspended" -> [agg EXCEPT !.status = "Suspended"]
            [] event.kind = "Reactivated" -> [agg EXCEPT !.status = "Active"]
            [] event.kind = "Deactivated" -> [agg EXCEPT !.status = "Deactivated"]
            [] OTHER -> agg
    IN [applied EXCEPT !.version = @ + 1]

apply_event(d, agg, event) ==
    IF d = "Order" THEN OrderApplyEvent(agg, event) ELSE CustomerApplyEvent(agg, event)

\* ShipOrderCheck that lets an order in status Created ship.
ShipOrderCheck_CreatedPasses(status) ==
    IF status \in {"Confirmed", "Created"} THEN Ok(TRUE)
    ELSE Err("InvalidStatusTransition")

\* The status match of the ShipOrder arm of handle_command.
ShipOrderCheck(status) ==
    IF status = "Confirmed" THEN Ok(TRUE)
    ELSE IF status = "Created" THEN Err("NotConfirmed")
    ELSE Err("InvalidStatusTransition")

\* CancelOrderCheck that lets a delivered order be cancelled.
CancelOrderCheck_DeliveredPasses(status) ==
    IF status = "Cancelled" THEN Err("AlreadyCancelled")
    ELSE Ok(TRUE)

\* The status match of the CancelOrder arm of handle_command.
CancelOrderCheck(status) ==
    IF status = "Cancelled" THEN Err("AlreadyCancelled")
    ELSE IF status = "Delivered" THEN Err("InvalidStatusTransition")
    ELSE Ok(TRUE)

\* OrderAggregate::handle_command: the events the command emits, or the
\* business-rule error.
OrderHandleCommand(agg, cmd) ==
    CASE cmd.name = "CreateOrder" ->
            IF validate_items(cmd.items).ok
            THEN Ok(<<[kind |-> "Created", items |-> cmd.items]>>)
            ELSE validate_items(cmd.items)
      [] cmd.name = "UpdateItems" ->
            IF agg.status = "Cancelled" THEN Err("AlreadyCancelled")
            ELSE IF agg.status # "Created" THEN Err("InvalidStatusTransition")
            ELSE IF validate_items(cmd.items).ok
            THEN Ok(<<[kind |-> "ItemsUpdated", items |-> cmd.items]>>)
            ELSE validate_items(cmd.items)
      [] cmd.name = "ConfirmOrder" ->
            IF agg.status = "Created" THEN Ok(<<[kind |-> "Confirmed", items |-> <<>>]>>)
            ELSE IF agg.status = "Confirmed" THEN Err("AlreadyConfirmed")
            ELSE Err("InvalidStatusTransition")
      [] cmd.name = "ShipOrder" ->
            IF ShipOrderCheck(agg.status).ok
            THEN Ok(<<[kind |-> "Shipped", items |-> <<>>]>>)
            ELSE ShipOrderCheck(agg.status)
      [] cmd.name = "DeliverOrder" ->
            IF agg.status = "Shipped" THEN Ok(<<[kind |-> "Delivered", items |-> <<>>]>>)
            ELSE Err("NotShipped")
      [] cmd.name = "CancelOrder" ->
            IF CancelOrderCheck(agg.status).ok
            THEN Ok(<<[kind |-> "Cancelled", items |-> <<>>]>>)
            ELSE CancelOrderCheck(agg.status)

\* CustomerAggregate::handle_command for the commands of CustomerCommands.
CustomerHandleCommand(agg, cmd) ==
    CASE cmd.name = "RegisterCustomer" ->
            Ok(<<[kind |-> "Registered", items |-> <<>>]>>)
      [] cmd.name = "UpdateProfile" ->
            IF agg.status = "Active" THEN Ok(<<[kind |-> "ProfileUpdated", items |-> <<>>]>>)
            ELSE Err("NotActive")
      [] cmd.name = "ChangeEmail" ->
            IF agg.status = "Active" THEN Ok(<<>>)
            ELSE Err("NotActive")
      [] cmd.name = "SuspendCustomer" ->
            IF agg.status = "Suspended" THEN Err("AlreadySuspended")
            ELSE IF agg.status = "Deactivated" THEN Err("AlreadyDeactivated")
            ELSE Ok(<<[kind |-> "Suspended", items |-> <<>>]>>)
      [] cmd.name = "ReactivateCustomer" ->
            IF agg.status # "Suspended" THEN Err("NotSuspended")
            ELSE Ok(<<[kind |-> "Reactivated", items |-> <<>>]>>)
      [] cmd.name = "DeactivateCustomer" ->
            IF agg.status = "Deactivated" THEN Err("AlreadyDeactivated")
            ELSE Ok(<<[kind |-> "Deactivated", items |-> <<>>]>>)

handle_command(d, agg, cmd) ==
    IF d = "Order" THEN OrderHandleCommand(agg, cmd) ELSE CustomerHandleCommand(agg, cmd)

\* The loop of load_from_events as OrderAggregate and CustomerAggregate
\* write it: after each event the version is the envelope's sequence_number.
RECURSIVE ApplyRemaining(_, _, _, _)
ApplyRemaining(d, agg, events, i) ==
    IF i > Len(events) THEN agg
    ELSE ApplyRemaining(d,
            [apply_event(d, agg, events[i].event_data)
                EXCEPT !.version = events[i].sequence_number],
            events, i + 1)

\* load_from_events of OrderAggregate and of CustomerAggregate.
load_from_events(d, events) ==
    IF events = <<>> THEN Err("NoEvents")
    ELSE LET first == apply_first_event(d, events[1].event_data)
         IN IF ~ first.ok THEN Err("FailedToApplyFirstEvent")
            ELSE Ok(ApplyRemaining(d,
                      [first.value EXCEPT !.version = events[1].sequence_number],
                      events, 2))

\* The loop of the trait's default load_from_events: apply_event only.
RECURSIVE DefaultApplyRemaining(_, _, _, _)
DefaultApplyRemaining(d, agg, events, i) ==
    IF i > Len(events) THEN agg
    ELSE DefaultApplyRemaining(d, apply_event(d, agg, events[i].event_data), events, i + 1)

\* Aggregate::load_from_events, the default of the trait, for an aggregate
\* with the apply functions of domain d.
default_load_from_events(d, events) ==
    IF events = <<>> THEN Err("NoEvents")
    ELSE LET first == apply_first_event(d, events[1].event_data)
         IN IF ~ first.ok THEN Err("FailedToApplyFirstEvent")
            ELSE Ok(DefaultApplyRemaining(d, first.value, events, 2))

\* ------------------------------------------------------- load_from_events

MaxLoad == 3
MaxSeq == 4

\* The events the envelopes of a load carry: the birth event of the domain
\* and two that change the status.
LoadKinds(d) ==
    IF d = "Order" THEN {"Created", "Confirmed", "Shipped"}
    ELSE {"Registered", "Suspended", "Reactivated"}

\* EventEnvelope, as far as load_from_events reads it.
LoadEnvelope(d) ==
    [sequence_number : 1..MaxSeq,
     event_data : {[kind |-> k, items |-> <<>>] : k \in LoadKinds(d)}]

\* The envelope lists load_events can give: ascending sequence numbers, with
\* or without gaps, and the empty list.
EnvelopeLists(d) ==
    UNION {{es \in [1..n -> LoadEnvelope(d)] :
               \A i \in 1..(n - 1) : es[i].sequence_number < es[i + 1].sequence_number}
           : n \in 0..MaxLoad}

\* The implementations of load_from_events: the aggregate's own, or the
\* default of the trait for an aggregate that does not write its own.
LoadImplementations == {"own", "default"}

LoadCalls ==
    UNION {{[pc |-> "called", impl |-> m, domain |-> d, events |-> es,
             result |-> Err("none")]
            : m \in LoadImplementations, es \in EnvelopeLists(d)}
           : d \in Domains}

\* The call the other specifications start with.
NoLoad ==
    [pc |-> "called", impl |-> "own", domain |-> "Order", events |-> <<>>,
     result |-> Err("none")]

\* A::load_from_events(events) returns.
LoadFromEvents ==
    /\ load.pc = "called"
    /\ load' = [load EXCEPT
          !.pc = "returned",
          !.result = IF load.impl = "own"
                     THEN load_from_events(load.domain, load.events)
                     ELSE default_load_from_events(load.domain, load.events)]

LoadInitWith(calls) == load \in calls

\* --------------------------------------------------------- command handlers

Handlers == {"h1", "h2"}

\* EventTypeName that gives the name of the enum variant alone.
EventTypeName_Variant(d, kind) == kind

\* The event_type string the handler gives the envelope of an event.
EventTypeName(d, kind) ==
    CASE kind = "Created" -> "OrderCreated"
      [] kind = "ItemsUpdated" -> "OrderItemsUpdated"
      [] kind = "Confirmed" -> "OrderConfirmed"
      [] kind = "Shipped" -> "OrderShipped"
      [] kind = "Delivered" -> "OrderDelivered"
      [] kind = "Cancelled" -> "OrderCancelled"
      [] kind = "Registered" -> "CustomerRegistered"
      [] kind = "ProfileUpdated" -> "CustomerProfileUpdated"
      [] kind = "Suspended" -> "CustomerSuspended"
      [] kind = "Reactivated" -> "CustomerReactivated"
      [] kind = "Deactivated" -> "CustomerDeactivated"

\* CreateOrder and RegisterCustomer with every other command.
IsBirthCommand_Any(d, cmd) == TRUE

\* The commands the handlers accept for an aggregate that does not exist.
IsBirthCommand(d, cmd) ==
    IF d = "Order" THEN cmd.name = "CreateOrder" ELSE cmd.name = "RegisterCustomer"

\* The event the handler makes its validation aggregate from.
DummyBirthEvent(d) ==
    IF d = "Order" THEN [kind |-> "Created", items |-> <<>>]
    ELSE [kind |-> "Registered", items |-> <<>>]

\* load_events of the store of domain d: the rows in sequence order, each
\* with its event_data parsed as an event of d; a row of another event type
\* makes the whole load fail.
LoadEnvelopes(d, a) ==
    LET rows == load_events(a)
    IN IF \E i \in 1..Len(rows) : deserialize_event(rows[i].event_data).kind \notin EventKinds(d)
       THEN Err("Deserialize")
       ELSE Ok([i \in 1..Len(rows) |->
                  [sequence_number |-> rows[i].sequence_number,
                   event_id |-> rows[i].event_id,
                   event_type |-> rows[i].event_type,
                   event_data |-> deserialize_event(rows[i].event_data)]])

\* EventStore::load_aggregate
load_aggregate(d, a) ==
    LET events == LoadEnvelopes(d, a)
    IN IF ~ events.ok THEN events
       ELSE IF events.value = <<>> THEN Err("AggregateNotFound")
       ELSE load_from_events(d, events.value)

\* The envelope loop of handle: one envelope per event, numbered from
\* expected_version + 1, with a fresh event_id each.
HandlerEnvelopes(d, domain_events, firstId, expected_version) ==
    [i \in 1..Len(domain_events) |->
        [event_id |-> firstId + i - 1,
         sequence_number |-> expected_version + i,
         event_type |-> EventTypeName(d, domain_events[i].kind),
         event_data |-> domain_events[i]]]

HandlerOk(v) == [ok |-> TRUE, value |-> v, error |-> "none", cause |-> "none"]
HandlerErr(e, c) == [ok |-> FALSE, value |-> 0, error |-> e, cause |-> c]

\* A handler call that has not begun.
IdleHandler ==
    [pc |-> "idle", domain |-> "none", aggregate_id |-> "none",
     command |-> [name |-> "none", items |-> <<>>],
     had_events |-> FALSE, status |-> "none", expected_version |-> 0,
     events |-> <<>>, op |-> 0, result |-> HandlerErr("none", "none")]

\* handle up to the call of append_events: aggregate_exists, then
\* load_aggregate or the validation aggregate of a birth command, then
\* handle_command.
HandleLoad(h, d, a, cmd) ==
    /\ handlers[h].pc = "idle"
    /\ LET exists == aggregate_exists(a)
           loaded == IF exists THEN load_aggregate(d, a)
                     ELSE IF IsBirthCommand(d, cmd)
                     THEN apply_first_event(d, DummyBirthEvent(d))
                     ELSE Err("AggregateDoesNotExist")
           outcome == IF loaded.ok THEN handle_command(d, loaded.value, cmd) ELSE loaded
       IN handlers' = [handlers EXCEPT ![h] =
             [pc |-> IF outcome.ok THEN "append" ELSE "returned",
              domain |-> d, aggregate_id |-> a, command |-> cmd,
              had_events |-> (load_events(a) # <<>>),
              status |-> IF loaded.ok THEN loaded.value.status ELSE "none",
              expected_version |-> IF exists /\ loaded.ok THEN loaded.value.version ELSE 0,
              events |-> IF outcome.ok THEN outcome.value ELSE <<>>,
              op |-> 0,
              result |-> IF outcome.ok THEN HandlerErr("none", "none")
                         ELSE IF loaded.ok THEN HandlerErr("CommandFailed", outcome.error)
                         ELSE HandlerErr(loaded.error, "none")]]
    /\ UNCHANGED storeVars

\* handle calls append_events with publish_to_outbox = true: the checks of
\* append_events run and the batch is built.
HandleAppendUpTo(limit, h) ==
    /\ handlers[h].pc = "append"
    /\ LET hr == handlers[h]
           envelopes == HandlerEnvelopes(hr.domain, hr.events, nextUuid, hr.expected_version)
       IN /\ AppendChecksUpTo(limit, TopicOf(hr.domain), hr.aggregate_id,
                              hr.expected_version, envelopes, TRUE)
          /\ handlers' = [handlers EXCEPT ![h] =
                IF envelopes = <<>>
                THEN [hr EXCEPT !.pc = "returned", !.result = HandlerErr("EmptyEvents", "none")]
                ELSE IF ~ VersionMatches(get_current_version(hr.aggregate_id),
                                         hr.expected_version)
                THEN [hr EXCEPT !.pc = "returned",
                                !.result = HandlerErr("ConcurrencyConflict", "none")]
                ELSE [hr EXCEPT !.pc = "batch", !.op = Len(ops) + 1]]

HandleAppend(h) == HandleAppendUpTo(MaxCalls, h)

\* append_events has returned to handle, which returns its result.
HandleReturn(h) ==
    /\ handlers[h].pc = "batch"
    /\ ops[handlers[h].op].status # "pending"
    /\ handlers' = [handlers EXCEPT ![h] =
          [@ EXCEPT !.pc = "returned",
                    !.result = IF ops[handlers[h].op].status = "ok"
                               THEN HandlerOk(handlers[h].expected_version
                                              + Len(handlers[h].events))
                               ELSE HandlerErr("StorageError", "none")]]
    /\ UNCHANGED storeVars

HandlersInit == handlers = [h \in Handlers |-> IdleHandler]

\* ------------------------------------------- callers that submit again

MaxHandled == 3

\* The commands of the callers that retry: an order is created, confirmed
\* and shipped.
RetryCommands ==
    {[name |-> "CreateOrder", items |-> <<1>>],
     [name |-> "ConfirmOrder", items |-> <<>>],
     [name |-> "ShipOrder", items |-> <<>>]}

\* The caller of a handle call that has returned calls handle again.
HandleAgain(h) ==
    /\ handlers[h].pc = "returned"
    /\ handlers' = [handlers EXCEPT ![h] = IdleHandler]
    /\ UNCHANGED storeVars

\* ------------------------------------------------- an aggregate in memory

MaxFold == 5

NoAggregate == [version |-> 0, status |-> "none", items |-> <<>>]

NoCommand == [name |-> "none", items |-> <<>>]

\* No aggregate of domain d exists yet.
NewFold(d) ==
    [domain |-> d, born |-> FALSE, aggregate |-> NoAggregate, before |-> NoAggregate,
     command |-> NoCommand, result |-> Err("none"), applied |-> <<>>, steps |-> 0]

\* apply_event for each of the events a command emitted.
RECURSIVE ApplyAll(_, _, _, _)
ApplyAll(d, agg, events, i) ==
    IF i > Len(events) THEN agg
    ELSE ApplyAll(d, apply_event(d, agg, events[i]), events, i + 1)

\* The aggregate is born: a birth command is validated and the event it
\* emits is given to apply_first_event.
FoldFirst(cmd) ==
    /\ ~fold.born
    /\ IsBirthCommand(fold.domain, cmd)
    /\ LET dummy == apply_first_event(fold.domain, DummyBirthEvent(fold.domain)).value
           r == handle_command(fold.domain, dummy, cmd)
       IN IF r.ok
          THEN fold' = [fold EXCEPT
                          !.born = TRUE,
                          !.aggregate = apply_first_event(fold.domain, r.value[1]).value,
                          !.command = cmd, !.result = r, !.applied = r.value,
                          !.steps = @ + 1]
          ELSE fold' = [fold EXCEPT !.command = cmd, !.result = r, !.steps = @ + 1]
    /\ fold.steps < MaxFold

\* aggregate.handle_command(&command), and apply_event for each event of
\* an accepted command.
FoldCommand(cmd) ==
    /\ fold.born
    /\ fold.steps < MaxFold
    /\ LET r == handle_command(fold.domain, fold.aggregate, cmd)
       IN fold' = [fold EXCEPT
                      !.before = fold.aggregate,
                      !.aggregate = IF r.ok
                                    THEN ApplyAll(fold.domain, fold.aggregate, r.value, 1)
                                    ELSE fold.aggregate,
                      !.command = cmd, !.result = r,
                      !.applied = IF r.ok THEN r.value ELSE <<>>,
                      !.steps = @ + 1]

FoldInitWith(ds) == fold \in {NewFold(d) : d \in ds}

\* -------------------------------------------------------- circuit breaker

None == -1

\* The configuration of the breaker's unit tests, with the timeout in ms.
TestBreakerConfig ==
    [failure_threshold |-> 3, timeout |-> 1000, success_threshold |-> 2]

\* CircuitBreaker::new
NewBreaker ==
    [state |-> "Closed", failure_count |-> 0, success_count |-> 0,
     last_failure_time |-> None]

\* last_failure.elapsed() >= self.config.timeout
TimeoutElapsed(b) == now - b.last_failure_time >= config.timeout

\* Admission that lets a call probe an Open breaker before the timeout.
Admission_Eager(b) ==
    IF b.state = "Open" THEN "probe" ELSE "pass"

\* The first block of CircuitBreaker::call, under the lock: what the call
\* does with the breaker before the operation runs.
\*   "reject"  - return Err(CircuitOpen)
\*   "probe"   - Open -> HalfOpen, success_count reset, the operation runs
\*   "pass"    - the operation runs, the breaker is left as it is
Admission(b) ==
    IF b.state = "Open"
    THEN IF b.last_failure_time # None
         THEN IF TimeoutElapsed(b) THEN "probe" ELSE "reject"
         ELSE "pass"
    ELSE "pass"

\* ThresholdReached with an off-by-one comparison.
ThresholdReached_Strict(count, threshold) == count > threshold

\* The threshold test of record_failure in Closed.
ThresholdReached(count, threshold) == count >= threshold

\* record_success that counts a success in Open as it does in HalfOpen.
RecordSuccess_CountsInOpen(b) ==
    IF b.state = "Closed"
    THEN [b EXCEPT !.failure_count = 0]
    ELSE IF b.success_count + 1 >= config.success_threshold
         THEN [state |-> "Closed", failure_count |-> 0, success_count |-> 0,
               last_failure_time |-> None]
         ELSE [b EXCEPT !.success_count = b.success_count + 1]

\* record_success that leaves failure_count alone in Closed.
RecordSuccess_NoReset(b) ==
    IF b.state = "HalfOpen"
    THEN IF b.success_count + 1 >= config.success_threshold
         THEN [state |-> "Closed", failure_count |-> 0, success_count |-> 0,
               last_failure_time |-> None]
         ELSE [b EXCEPT !.success_count = b.success_count + 1]
    ELSE b

\* CircuitBreaker::record_success
RecordSuccess(b) ==
    IF b.state = "HalfOpen"
    THEN IF b.success_count + 1 >= config.success_threshold
         THEN [state |-> "Closed", failure_count |-> 0, success_count |-> 0,
               last_failure_time |-> None]
         ELSE [b EXCEPT !.success_count = b.success_count + 1]
    ELSE IF b.state = "Closed"
    THEN [b EXCEPT !.failure_count = 0]
    ELSE b

\* record_failure that does not note the time of the failure.
RecordFailure_NoTime(b) ==
    LET counted == [b EXCEPT !.failure_count = b.failure_count + 1]
    IN IF b.state = "Closed"
       THEN IF ThresholdReached(counted.failure_count, config.failure_threshold)
            THEN [counted EXCEPT !.state = "Open"]
            ELSE counted
       ELSE IF b.state = "HalfOpen"
       THEN [counted EXCEPT !.state = "Open", !.success_count = 0]
       ELSE counted

\* record_failure that keeps the successes counted in HalfOpen.
RecordFailure_KeepsSuccesses(b) ==
    LET counted == [b EXCEPT !.failure_count = b.failure_count + 1,
                             !.last_failure_time = now]
    IN IF b.state = "Closed"
       THEN IF ThresholdReached(counted.failure_count, config.failure_threshold)
            THEN [counted EXCEPT !.state = "Open"]
            ELSE counted
       ELSE IF b.state = "HalfOpen"
       THEN [counted EXCEPT !.state = "Open"]
       ELSE counted

\* CircuitBreaker::record_failure
RecordFailure(b) ==
    LET counted == [b EXCEPT !.failure_count = b.failure_count + 1,
                             !.last_failure_time = now]
    IN IF b.state = "Closed"
       THEN IF ThresholdReached(counted.failure_count, config.failure_threshold)
            THEN [counted EXCEPT !.state = "Open"]
            ELSE counted
       ELSE IF b.state = "HalfOpen"
       THEN [counted EXCEPT !.state = "Open", !.success_count = 0]
       ELSE counted

\* CircuitBreaker::call up to the operation: the check under the lock.
CallEnter(c) ==
    /\ cpc[c] = "idle"
    /\ LET adm == Admission(breaker)
       IN /\ breaker' = IF adm = "probe"
                        THEN [breaker EXCEPT !.state = "HalfOpen", !.success_count = 0]
                        ELSE breaker
          /\ IF adm = "reject"
             THEN /\ cresult' = [cresult EXCEPT ![c] = "CircuitOpen"]
                  /\ UNCHANGED <<cpc, cadmit>>
             ELSE /\ cpc' = [cpc EXCEPT ![c] = "running"]
                  /\ cadmit' = [cadmit EXCEPT ![c] = breaker'.state]
                  /\ cresult' = [cresult EXCEPT ![c] = "none"]
    /\ UNCHANGED <<config, now, consecutive>>

\* The operation returned Ok: record_success, call returns Ok(result).
CallSucceed(c) ==
    /\ cpc[c] = "running"
    /\ breaker' = RecordSuccess(breaker)
    /\ cpc' = [cpc EXCEPT ![c] = "idle"]
    /\ cresult' = [cresult EXCEPT ![c] = "Ok"]
    /\ consecutive' = 0
    /\ UNCHANGED <<config, now, cadmit>>

\* The operation returned Err: record_failure, call returns
\* Err(OperationFailed(err)).
CallFail(c) ==
    /\ cpc[c] = "running"
    /\ breaker' = RecordFailure(breaker)
    /\ cpc' = [cpc EXCEPT ![c] = "idle"]
    /\ cresult' = [cresult EXCEPT ![c] = "OperationFailed"]
    /\ consecutive' = consecutive + 1
    /\ UNCHANGED <<config, now, cadmit>>

\* CircuitBreaker::reset
Reset ==
    /\ breaker' = NewBreaker
    /\ consecutive' = 0
    /\ UNCHANGED <<config, now, cpc, cadmit, cresult>>

\* Time passes, half an open_timeout at a time.
Tick ==
    /\ now < MaxTicks * (config.timeout \div 2)
    /\ now' = now + config.timeout \div 2
    /\ UNCHANGED <<breaker, config, cpc, cadmit, cresult, consecutive>>

CBInitWith(cfg) ==
    /\ breaker = NewBreaker
    /\ config = cfg
    /\ now = 0
    /\ cpc = [c \in Callers |-> "idle"]
    /\ cadmit = [c \in Callers |-> "Closed"]
    /\ cresult = [c \in Callers |-> "none"]
    /\ consecutive = 0

CBInit == CBInitWith(TestBreakerConfig)

\* ---------------------------------------------- CDC relay, retry and DLQ

Consumers == {"c1"}

\* The CDC rows the library may hand to a consumer: inserts of two outbox
\* rows of one aggregate, the post-image of the first, an update of it, the
\* delete of the second (only the key columns are set), and an insert whose
\* payload column cannot be read as text. `unreadable` names
\* the columns for which get_value(..).as_uuid() / as_text() gives None.
CdcRows ==
    {[operation |-> "RowInsert", id |-> 1, aggregate_id |-> "A",
      event_type |-> "OrderCreated", payload |-> "created", topic |-> OrderTopic,
      unreadable |-> {}],
     [operation |-> "RowInsert", id |-> 2, aggregate_id |-> "A",
      event_type |-> "OrderConfirmed", payload |-> "confirmed", topic |-> OrderTopic,
      unreadable |-> {}],
     [operation |-> "PostImage", id |-> 1, aggregate_id |-> "A",
      event_type |-> "OrderCreated", payload |-> "created", topic |-> OrderTopic,
      unreadable |-> {}],
     [operation |-> "RowUpdate", id |-> 1, aggregate_id |-> "A",
      event_type |-> "OrderCreated", payload |-> "created", topic |-> OrderTopic,
      unreadable |-> {}],
     [operation |-> "RowDelete", id |-> 2, aggregate_id |-> "A",
      event_type |-> "", payload |-> "", topic |-> "",
      unreadable |-> {"aggregate_id", "event_type", "payload", "topic"}],
     [operation |-> "RowInsert", id |-> 3, aggregate_id |-> "A",
      event_type |-> "OrderShipped", payload |-> "", topic |-> OrderTopic,
      unreadable |-> {"payload"}]}

NoRow == [operation |-> "none", id |-> 0, aggregate_id |-> "A",
          event_type |-> "none", payload |-> "none", topic |-> "none",
          unreadable |-> {}]

\* RetryConfig::aggressive, delays in milliseconds.
AggressiveRetry ==
    [max_attempts |-> 5, initial_delay |-> 50, max_delay |-> 30000, multiplier |-> 2]

\* The breaker configuration of RedpandaClient::new, timeout in milliseconds.
RedpandaBreakerConfig ==
    [failure_threshold |-> 5, timeout |-> 30000, success_threshold |-> 3]

\* extract_event_from_cdc_row without the match on the operation.
extract_event_from_cdc_row_AnyOperation(row) ==
    IF \/ "id" \in row.unreadable
       \/ "aggregate_id" \in row.unreadable
       \/ "event_type" \in row.unreadable
       \/ "payload" \in row.unreadable
    THEN "Err"
    ELSE "Some"

\* OutboxCDCConsumer::extract_event_from_cdc_row:
\*   "None" for an operation that is no insert, "Err" when a column of an
\*   insert is missing or of the wrong type, "Some" otherwise.
extract_event_from_cdc_row(row) ==
    IF row.operation \in {"RowInsert", "PostImage"}
    THEN IF \/ "id" \in row.unreadable
            \/ "aggregate_id" \in row.unreadable
            \/ "event_type" \in row.unreadable
            \/ "payload" \in row.unreadable
         THEN "Err"
         ELSE "Some"
    ELSE "None"

\* What consume_cdc returns when extract_event_from_cdc_row fails: the `?`
\* hands the error to the CDC library.
ExtractErrorReturn == "Err"

\* NextDelay without the clamp to max_delay.
NextDelay_Unclamped(d, rc) == d * rc.multiplier

\* The backoff step of retry_with_backoff.
NextDelay(d, rc) ==
    IF d * rc.multiplier <= rc.max_delay THEN d * rc.multiplier ELSE rc.max_delay

\* The record RedpandaClient::publish(&event_type, &event_id_str, &payload)
\* hands to the producer.
BrokerRecord(ev) ==
    [topic |-> ev.event_type, key |-> UuidText(ev.id), payload |-> ev.payload]

\* AddToDlq with failure_count never filled in.
AddToDlq_CountsNothing(ev, err, first) ==
    [id |-> ev.id, aggregate_id |-> ev.aggregate_id, event_type |-> ev.event_type,
     payload |-> ev.payload, error_message |-> err,
     failure_count |-> 0, first_failed_at |-> first]

\* The AddToDlq message consume_cdc builds.
AddToDlq(ev, err, first) ==
    [id |-> ev.id, aggregate_id |-> ev.aggregate_id, event_type |-> ev.event_type,
     payload |-> ev.payload, error_message |-> err,
     failure_count |-> AggressiveRetry.max_attempts, first_failed_at |-> first]

\* DlqMessagesFor that matches only one of the two failure variants.
DlqMessagesFor_PermanentOnly(result, ev, err, first) ==
    IF result = "PermanentFailure"
    THEN <<AddToDlq(ev, err, first)>>
    ELSE <<>>

\* What consume_cdc tells the DLQ actor for a retry result.
DlqMessagesFor(result, ev, err, first) ==
    IF result \in {"Failed", "PermanentFailure"}
    THEN <<AddToDlq(ev, err, first)>>
    ELSE <<>>

\* consume_cdc returns to the CDC library.
Return(c, row, ret, outcome) ==
    /\ rpc' = [rpc EXCEPT ![c] = "idle"]
    /\ rrow' = [rrow EXCEPT ![c] = NoRow]
    /\ attempt' = [attempt EXCEPT ![c] = 0]
    /\ delay' = [delay EXCEPT ![c] = 0]
    /\ first_attempt_time' = [first_attempt_time EXCEPT ![c] = 0]
    /\ returned' = [returned EXCEPT ![c] = ret]
    /\ finished' = finished \cup {[id |-> row.id, operation |-> row.operation,
                                   outcome |-> outcome]}

\* consume_cdc is called with a CDC row: extract the event; a row that is no
\* insert is skipped, an insert that does not extract ends the call, an
\* extracted event enters retry_with_backoff.
ConsumeBegin(c, row) ==
    /\ rpc[c] = "idle"
    /\ consumed < MaxRows
    /\ consumed' = consumed + 1
    /\ LET ex == extract_event_from_cdc_row(row)
       IN IF ex = "Err" THEN Return(c, row, ExtractErrorReturn, "ExtractError")
          ELSE IF ex = "None" THEN Return(c, row, "Ok", "Skipped")
          ELSE /\ rpc' = [rpc EXCEPT ![c] = "loop"]
               /\ rrow' = [rrow EXCEPT ![c] = row]
               /\ attempt' = [attempt EXCEPT ![c] = 0]
               /\ delay' = [delay EXCEPT ![c] = AggressiveRetry.initial_delay]
               /\ first_attempt_time' = [first_attempt_time EXCEPT ![c] = now]
               /\ returned' = [returned EXCEPT ![c] = "none"]
               /\ UNCHANGED finished
    /\ UNCHANGED <<wake_at, broker, dlq_mailbox, dead_letter_queue, dlq_lost>>

\* The Err branch of retry_with_backoff followed by the match of
\* consume_cdc: after max_attempts the result is Failed, the event is told to
\* the DLQ actor and Ok is returned; otherwise sleep(delay) and back off.
AttemptFailed(c, err) ==
    IF attempt'[c] >= AggressiveRetry.max_attempts
    THEN /\ dlq_mailbox' = dlq_mailbox \o
                DlqMessagesFor("Failed", rrow[c], err, first_attempt_time[c])
         /\ rpc' = [rpc EXCEPT ![c] = "idle"]
         /\ rrow' = [rrow EXCEPT ![c] = NoRow]
         /\ delay' = [delay EXCEPT ![c] = 0]
         /\ first_attempt_time' = [first_attempt_time EXCEPT ![c] = 0]
         /\ returned' = [returned EXCEPT ![c] = "Ok"]
         /\ finished' = finished \cup {[id |-> rrow[c].id,
                                        operation |-> rrow[c].operation,
                                        outcome |-> "Failed"]}
         /\ UNCHANGED wake_at
    ELSE /\ rpc' = [rpc EXCEPT ![c] = "sleeping"]
         /\ wake_at' = [wake_at EXCEPT ![c] = now + delay[c]]
         /\ delay' = [delay EXCEPT ![c] = NextDelay(delay[c], AggressiveRetry)]
         /\ UNCHANGED <<rrow, first_attempt_time, returned, finished, dlq_mailbox>>

\* The top of the retry loop: attempt += 1 and operation(attempt), which is
\* RedpandaClient::publish entering CircuitBreaker::call. A rejected call
\* makes publish return the "Circuit breaker open" error for this attempt.
PublishAttempt(c) ==
    /\ rpc[c] = "loop"
    /\ CallEnter(c)
    /\ IF cresult'[c] = "CircuitOpen"
       THEN /\ attempt' = [attempt EXCEPT ![c] = attempt[c] + 1]
            /\ AttemptFailed(c, "Circuit breaker open for Redpanda")
       ELSE /\ attempt' = [attempt EXCEPT ![c] = attempt[c] + 1]
            /\ rpc' = [rpc EXCEPT ![c] = "sending"]
            /\ UNCHANGED <<rrow, delay, wake_at, first_attempt_time, returned,
                           finished, dlq_mailbox>>
    /\ UNCHANGED <<consumed, broker, dead_letter_queue, dlq_lost>>

\* producer.send succeeded: the broker has the record, the breaker records
\* the success, retry_with_backoff returns Success and consume_cdc Ok.
SendOk(c) ==
    /\ rpc[c] = "sending"
    /\ CallSucceed(c)
    /\ broker' = broker \cup {BrokerRecord(rrow[c])}
    /\ dlq_mailbox' = dlq_mailbox \o
           DlqMessagesFor("Success", rrow[c], "none", first_attempt_time[c])
    /\ Return(c, rrow[c], "Ok", "Success")
    /\ UNCHANGED <<wake_at, consumed, dead_letter_queue, dlq_lost>>

\* producer.send failed or timed out: the breaker records the failure and
\* publish returns the send error.
SendFail(c) ==
    /\ rpc[c] = "sending"
    /\ CallFail(c)
    /\ UNCHANGED attempt
    /\ AttemptFailed(c, "Kafka send error")
    /\ UNCHANGED <<consumed, broker, dead_letter_queue, dlq_lost>>

\* sleep(delay) ends, not before the delay has passed.
Wake(c) ==
    /\ rpc[c] = "sleeping"
    /\ now' = IF now >= wake_at[c] THEN now ELSE wake_at[c]
    /\ rpc' = [rpc EXCEPT ![c] = "loop"]
    /\ wake_at' = [wake_at EXCEPT ![c] = 0]
    /\ UNCHANGED <<breaker, config, cpc, cadmit, cresult, consecutive>>
    /\ UNCHANGED <<rrow, attempt, delay, first_attempt_time, returned, consumed,
                   finished, broker, dlq_mailbox, dead_letter_queue, dlq_lost>>

\* Handler<AddToDlq>: the INSERT into dead_letter_queue succeeded.
DlqInsert ==
    /\ dlq_mailbox # <<>>
    /\ LET msg == Head(dlq_mailbox)
           row == [id |-> msg.id, aggregate_id |-> msg.aggregate_id,
                   event_type |-> msg.event_type, payload |-> msg.payload,
                   error_message |-> msg.error_message,
                   failure_count |-> msg.failure_count,
                   first_failed_at |-> msg.first_failed_at,
                   last_failed_at |-> now, created_at |-> now]
       IN dead_letter_queue' = {r \in dead_letter_queue : r.id # msg.id} \cup {row}
    /\ dlq_mailbox' = Tail(dlq_mailbox)
    /\ UNCHANGED <<rpc, rrow, attempt, delay, wake_at, first_attempt_time, returned,
                   consumed, finished, broker, dlq_lost>>

\* Handler<AddToDlq>: the INSERT failed; the handler returns Err, which
\* nobody awaits.
DlqInsertError ==
    /\ dlq_mailbox # <<>>
    /\ dlq_lost' = dlq_lost \cup {Head(dlq_mailbox).id}
    /\ dlq_mailbox' = Tail(dlq_mailbox)
    /\ UNCHANGED <<rpc, rrow, attempt, delay, wake_at, first_attempt_time, returned,
                   consumed, finished, broker, dead_letter_queue>>

\* Time passes, one open_timeout at a time, while the breaker is Open and a
\* publish is about to enter it (the only point at which
\* CircuitBreaker::call reads the elapsed time).
Elapse ==
    /\ breaker.state = "Open"
    /\ now < MaxGaps * config.timeout
    /\ \E c \in Consumers : rpc[c] = "loop"
    /\ now' = now + config.timeout
    /\ UNCHANGED <<breaker, config, cpc, cadmit, cresult, consecutive>>

\* The consumers the factory has built for the reader's tasks.
ConsumerPool == {"c1", "c2"}

\* The CDC rows of the outbox inserts of one aggregate; the ids follow the
\* order in which the rows were written.
OutboxInserts ==
    {row \in CdcRows : row.operation = "RowInsert" /\ row.unreadable = {}}

WrittenBefore(r1, r2) == r1.aggregate_id = r2.aggregate_id /\ r1.id < r2.id

\* The CDC row of outbox row id has been handed to a consumer.
Delivered(id) ==
    \/ \E f \in finished : f.id = id
    \/ \E c \in ConsumerPool : rpc[c] # "idle" /\ rrow[c].id = id

\* The reader hands the CDC row of an outbox insert to one of its
\* consumers: each row once, a row after the rows written before it. The
\* outbox table is partitioned by the row's own id, so the rows of one
\* aggregate are spread over the streams and their consumers.
Deliver(c, row) ==
    /\ ~Delivered(row.id)
    /\ \A r \in OutboxInserts : WrittenBefore(r, row) => Delivered(r.id)
    /\ ConsumeBegin(c, row)

RelayInit ==
    /\ rpc = [c \in Callers |-> "idle"]
    /\ rrow = [c \in Callers |-> NoRow]
    /\ attempt = [c \in Callers |-> 0]
    /\ delay = [c \in Callers |-> 0]
    /\ wake_at = [c \in Callers |-> 0]
    /\ first_attempt_time = [c \in Callers |-> 0]
    /\ returned = [c \in Callers |-> "none"]
    /\ consumed = 0
    /\ finished = {}
    /\ broker = {}
    /\ dlq_mailbox = <<>>
    /\ dead_letter_queue = {}
    /\ dlq_lost = {}

\* ---------------------------------------------------- retry_with_backoff

\* RetryConfig::default and RetryConfig::conservative, delays in ms.
DefaultRetry ==
    [max_attempts |-> 3, initial_delay |-> 100, max_delay |-> 10000, multiplier |-> 2]

ConservativeRetry ==
    [max_attempts |-> 2, initial_delay |-> 200, max_delay |-> 5000, multiplier |-> 2]

\* The config of the unit tests with max_attempts (a u32) left open.
TestRetry(m) ==
    [max_attempts |-> m, initial_delay |-> 10, max_delay |-> 100, multiplier |-> 2]

\* Two configs a caller can build from the public fields: one whose delay
\* reaches max_delay at the first backoff step, one whose initial_delay is
\* already above max_delay.
ShortCapRetry ==
    [max_attempts |-> 3, initial_delay |-> 60, max_delay |-> 100, multiplier |-> 2]

OverCapRetry ==
    [max_attempts |-> 3, initial_delay |-> 200, max_delay |-> 100, multiplier |-> 2]

RetryConfigs ==
    {DefaultRetry, AggressiveRetry, ConservativeRetry, ShortCapRetry, OverCapRetry}
        \cup {TestRetry(m) : m \in 0..MaxAttempts}

\* The two retry loops of the module.
RetryFunctions == {"retry_with_backoff", "retry_on_transient"}

\* The errors the operation of the unit tests returns.
OperationErrors == {"temporary failure", "persistent failure"}

\* IsTransient::is_transient of the error type: the errors worth a retry.
TransientErrors == {"temporary failure"}

is_transient(e) == e \in TransientErrors

\* retry_with_backoff entered with config cfg: attempt = 0 and
\* delay = initial_delay.  calls, errors and slept are the history of the
\* attempt numbers passed to the operation, of the errors it returned and of
\* the sleeps.
NewRetry(cfg) ==
    [function |-> "retry_with_backoff",
     pc |-> "loop", config |-> cfg, attempt |-> 0, delay |-> cfg.initial_delay,
     calls |-> <<>>, errors |-> <<>>, slept |-> <<>>,
     result |-> "none", error |-> "none"]

\* retry_on_transient entered with config cfg: the same locals.
NewTransientRetry(cfg) ==
    [NewRetry(cfg) EXCEPT !.function = "retry_on_transient"]

\* AttemptsExhausted with an off-by-one comparison.
AttemptsExhausted_Strict(attempt_, max_attempts) == attempt_ > max_attempts

\* The comparison that ends the retries.
AttemptsExhausted(attempt_, max_attempts) == attempt_ >= max_attempts

\* The top of the loop: attempt += 1 and operation(attempt) is called.
RetryAttempt ==
    /\ retry.pc = "loop"
    /\ retry' = [retry EXCEPT !.pc = "calling",
                              !.attempt = @ + 1,
                              !.calls = Append(@, retry.attempt + 1)]

\* operation(attempt) returned Ok: Success is returned.
OperationOk ==
    /\ retry.pc = "calling"
    /\ retry' = [retry EXCEPT !.pc = "returned", !.result = "Success"]

\* ErrBranch with the two tests of retry_on_transient in the other order.
ErrBranch_AttemptsFirst(fn, e, attempt_, max_attempts) ==
    IF AttemptsExhausted(attempt_, max_attempts) THEN "Failed"
    ELSE IF fn = "retry_on_transient" /\ ~is_transient(e) THEN "PermanentFailure"
    ELSE "sleep"

\* The Err(error) arm of the match: retry_on_transient first returns
\* PermanentFailure for an error that is not transient; both loops then
\* return Failed once attempt >= max_attempts and sleep otherwise.
ErrBranch(fn, e, attempt_, max_attempts) ==
    IF fn = "retry_on_transient" /\ ~is_transient(e) THEN "PermanentFailure"
    ELSE IF AttemptsExhausted(attempt_, max_attempts) THEN "Failed"
    ELSE "sleep"

\* operation(attempt) returned Err(e): PermanentFailure(e) or Failed(e) is
\* returned, or sleep(delay) starts.
OperationErr(e) ==
    /\ retry.pc = "calling"
    /\ LET branch == ErrBranch(retry.function, e, retry.attempt,
                               retry.config.max_attempts)
       IN IF branch = "sleep"
          THEN retry' = [retry EXCEPT !.pc = "sleeping", !.errors = Append(@, e),
                                      !.slept = Append(@, retry.delay)]
          ELSE retry' = [retry EXCEPT !.pc = "returned", !.result = branch,
                                      !.error = e, !.errors = Append(@, e)]

\* sleep(delay) is over: the next delay is computed and the loop goes on.
RetryWake ==
    /\ retry.pc = "sleeping"
    /\ retry' = [retry EXCEPT !.pc = "loop",
                              !.delay = NextDelay(@, retry.config)]

RetryInitWith(fns, cfgs) ==
    retry \in {IF fn = "retry_on_transient" THEN NewTransientRetry(cfg)
                                            ELSE NewRetry(cfg) :
                  fn \in fns, cfg \in cfgs}

\* --------------------------------------------------------- health monitor

\* The components the coordinator and the monitor's own periodic check
\* report on.
ComponentNames == {"cdc_processor", "dlq_actor", "redpanda"}

\* HealthStatus, without the message of Degraded and Unhealthy.
HealthStatuses == {"Healthy", "Degraded", "Unhealthy"}

\* No entry in the HashMap.
Absent == "absent"

\* compute_overall_status with the two tests in the other order.
compute_overall_status_DegradedFirst(comps) ==
    LET has_degraded == \E n \in ComponentNames : comps[n] = "Degraded"
        unhealthy_components == {n \in ComponentNames : comps[n] = "Unhealthy"}
    IN IF has_degraded THEN "Degraded"
       ELSE IF unhealthy_components # {} THEN "Unhealthy"
       ELSE "Healthy"

\* HealthMonitorActor::compute_overall_status over the entries of the map.
compute_overall_status(comps) ==
    LET has_degraded == \E n \in ComponentNames : comps[n] = "Degraded"
        unhealthy_components == {n \in ComponentNames : comps[n] = "Unhealthy"}
    IN IF unhealthy_components # {} THEN "Unhealthy"
       ELSE IF has_degraded THEN "Degraded"
       ELSE "Healthy"

\* Message<UpdateHealth>: components.insert(component, health).
UpdateHealth(component, status) ==
    /\ components' = [components EXCEPT ![component] = status]
    /\ latest_update' = [latest_update EXCEPT ![component] = status]
    /\ UNCHANGED system_health

\* The status the periodic check derives from the broker breaker's state.
RedpandaStatus(state) ==
    IF state = "Closed" THEN "Healthy"
    ELSE IF state = "HalfOpen" THEN "Degraded"
    ELSE "Unhealthy"

\* The periodic task of on_start: every 10 s it tells the monitor the
\* status of "redpanda".
RedpandaHealthCheck == UpdateHealth("redpanda", RedpandaStatus(breaker.state))

\* Message<GetSystemHealth>: the reply holds the overall status and a copy
\* of the map.
GetSystemHealth ==
    /\ system_health' = [overall_status |-> compute_overall_status(components),
                         components |-> components,
                         asked |-> TRUE]
    /\ UNCHANGED <<components, latest_update>>

HealthInit ==
    /\ components = [n \in ComponentNames |-> Absent]
    /\ latest_update = [n \in ComponentNames |-> Absent]
    /\ system_health = [overall_status |-> "Healthy",
                        components |-> [n \in ComponentNames |-> Absent],
                        asked |-> FALSE]

\* ------------------------------------------------------------ coordinator

MaxShutdowns == 2

\* The children start_child_actors creates.
ChildActors == {"cdc_processor", "dlq_actor", "health_monitor"}

\* The Shutdown handler with the health monitor signalled first.
ShutdownOrder_HealthFirst == <<"health_monitor", "cdc_processor", "dlq_actor">>

\* The children in the order the Shutdown handler goes through them.
ShutdownOrder == <<"cdc_processor", "dlq_actor", "health_monitor">>

\* CoordinatorActor::started: start_child_actors starts the three children
\* and reports the DLQ actor and the CDC processor healthy to the monitor.
CoordinatorStarted ==
    /\ coordinator.state = "Created"
    /\ coordinator' = [coordinator EXCEPT !.state = "Running"]
    /\ children' = [c \in ChildActors |-> "Running"]
    /\ health_mailbox' = health_mailbox \o
          <<[component |-> "dlq_actor", status |-> "Healthy"],
            [component |-> "cdc_processor", status |-> "Healthy"]>>
    /\ UNCHANGED <<shutdown_requests, stop_mailbox, stop_signals, healthVars>>

\* The health monitor handles the next UpdateHealth of its mailbox.
HealthDeliver ==
    /\ children["health_monitor"] = "Running"
    /\ health_mailbox # <<>>
    /\ UpdateHealth(Head(health_mailbox).component, Head(health_mailbox).status)
    /\ health_mailbox' = Tail(health_mailbox)
    /\ UNCHANGED <<coordinator, shutdown_requests, children, stop_mailbox, stop_signals>>

\* The 30 s interval of started: the coordinator asks the monitor for the
\* system health.
CoordinatorHealthCheck ==
    /\ coordinator.state = "Running"
    /\ coordinator.pc = 0
    /\ children["health_monitor"] = "Running"
    /\ health_mailbox = <<>>
    /\ GetSystemHealth
    /\ UNCHANGED coordVars

\* Somebody sends Shutdown to the coordinator's address.
SendShutdown ==
    /\ shutdown_requests < MaxShutdowns
    /\ shutdown_requests' = shutdown_requests + 1
    /\ UNCHANGED <<coordinator, children, stop_mailbox, stop_signals, health_mailbox, healthVars>>

\* Handler<Shutdown>: a running coordinator takes the message.
HandleShutdown ==
    /\ coordinator.state = "Running"
    /\ coordinator.pc = 0
    /\ shutdown_requests > 0
    /\ shutdown_requests' = shutdown_requests - 1
    /\ coordinator' = [coordinator EXCEPT !.pc = 1]
    /\ UNCHANGED <<children, stop_mailbox, stop_signals, health_mailbox, healthVars>>

\* Handler<Shutdown>: the next `if let Some(child) ... do_send(StopActor)`.
SendStop ==
    /\ coordinator.pc \in 1..Len(ShutdownOrder)
    /\ LET c == ShutdownOrder[coordinator.pc]
       IN IF children[c] # "None"
          THEN /\ stop_mailbox' = [stop_mailbox EXCEPT ![c] = @ + 1]
               /\ stop_signals' = Append(stop_signals, c)
          ELSE UNCHANGED <<stop_mailbox, stop_signals>>
    /\ coordinator' = [coordinator EXCEPT !.pc = @ + 1]
    /\ UNCHANGED <<shutdown_requests, children, health_mailbox, healthVars>>

\* Handler<Shutdown>: ctx.stop(); a stopping context takes no more messages.
CoordinatorStop ==
    /\ coordinator.pc = Len(ShutdownOrder) + 1
    /\ coordinator' = [state |-> "Stopped", pc |-> 0]
    /\ UNCHANGED <<shutdown_requests, children, stop_mailbox, stop_signals, health_mailbox, healthVars>>

\* Handler<StopActor> of a child: ctx.stop().
HandleStopActor(c) ==
    /\ children[c] = "Running"
    /\ stop_mailbox[c] > 0
    /\ stop_mailbox' = [stop_mailbox EXCEPT ![c] = @ - 1]
    /\ children' = [children EXCEPT ![c] = "Stopped"]
    /\ UNCHANGED <<coordinator, shutdown_requests, stop_signals, health_mailbox, healthVars>>

\* --------------------------------- the tasks the children spawn at start

MaxProbes == 1

\* The task HealthMonitorActor::on_start spawns: at every tick of its 10 s
\* interval it reads the breaker's state and tells the monitor the status of
\* "redpanda"; the result of the tell is dropped. The loop has no exit.
PeriodicProbe ==
    /\ children["health_monitor"] # "None"
    /\ probes < MaxProbes
    /\ probes' = probes + 1
    /\ IF children["health_monitor"] = "Running"
       THEN health_mailbox' = Append(health_mailbox,
                [component |-> "redpanda", status |-> RedpandaStatus(breaker.state)])
       ELSE UNCHANGED health_mailbox
    /\ UNCHANGED <<coordinator, shutdown_requests, children, stop_mailbox, stop_signals,
                   healthVars>>

\* The reader start_cdc_streaming builds and spawns, started by the task
\* CdcProcessor::on_start spawns: it hands the next CDC row to its consumer.
\* Neither task keeps a handle the actor could reach.
StreamRow(c, row) ==
    /\ children["cdc_processor"] # "None"
    /\ ConsumeBegin(c, row)

\* The CDC rows the reader streams while the system shuts down: the insert
\* of the first outbox row.
StreamedRows == {row \in OutboxInserts : row.id = 1}

\* The DLQ actor takes the next AddToDlq of its mailbox.
DlqHandle ==
    /\ children["dlq_actor"] = "Running"
    /\ DlqInsert \/ DlqInsertError

TasksInit == probes = 0

\* ------------------------------------------------- polling relay (legacy)

MaxPolled == 3

\* The seen-id set is cleared when it holds more than this many ids.
ProcessedIdsCap == 1000

\* messages.sort_by_key(|m| m.created_at)
RECURSIVE sort_by_created_at(_)
sort_by_created_at(rows) ==
    IF rows = {} THEN <<>>
    ELSE LET first == CHOOSE r \in rows :
                          \A o \in rows : r.created_at <= o.created_at
         IN <<first>> \o sort_by_created_at(rows \ {first})

\* SELECT ... FROM outbox_messages WHERE created_at > since, sorted.
fetch_new_messages(since) ==
    sort_by_created_at({r \in outbox_created : r.created_at > since})

\* The latest created_at of the table; the time the relay started at if
\* the table is empty.
LatestCreated ==
    IF outbox_created = {} THEN 0
    ELSE LET last == CHOOSE r \in outbox_created :
                         \A o \in outbox_created : o.created_at <= r.created_at
         IN last.created_at

\* append_events' batch inserts an outbox row; created_at is Utc::now() of
\* the batch's build: the instant of the row before it or a later one, and
\* later than the time the relay started at.
OutboxRowCreated ==
    /\ Cardinality(outbox_created) < MaxPolled
    /\ \E t \in {LatestCreated, LatestCreated + 1} :
          /\ t > 0
          /\ outbox_created' = outbox_created \cup
                 {[id |-> Cardinality(outbox_created) + 1, created_at |-> t]}
    /\ UNCHANGED <<poller, redpanda>>

\* The broker stops or starts accepting publishes.
RedpandaSwitch ==
    /\ redpanda' = [redpanda EXCEPT !.up = ~redpanda.up]
    /\ UNCHANGED <<poller, outbox_created>>

\* The head of the loop: the sleep has ended and the poll's query returns.
PollFetch ==
    /\ poller.pc = "sleep"
    /\ poller' = [poller EXCEPT !.pc = "batch",
                                !.messages = fetch_new_messages(poller.last_processed_time)]
    /\ UNCHANGED <<outbox_created, redpanda>>

\* One turn of `for msg in messages`: a seen id is skipped; else the
\* message is published; on Ok the checkpoint moves to the message and is
\* saved, on Err the error is logged and the loop goes on.
PollPublish ==
    /\ poller.pc = "batch"
    /\ poller.messages # <<>>
    /\ LET msg == Head(poller.messages)
           rest == Tail(poller.messages)
           seen == poller.processed_ids \cup {msg.id}
       IN IF msg.id \in poller.processed_ids
          THEN /\ poller' = [poller EXCEPT !.messages = rest]
               /\ UNCHANGED redpanda
          ELSE IF redpanda.up
          THEN /\ redpanda' = [redpanda EXCEPT !.published = @ \cup {msg.id}]
               /\ poller' = [poller EXCEPT
                     !.messages = rest,
                     !.last_processed_time = msg.created_at,
                     !.processed_ids = IF Cardinality(seen) > ProcessedIdsCap
                                       THEN {} ELSE seen,
                     !.cdc_offsets = [last_processed_time |-> msg.created_at,
                                      last_event_id |-> msg.id]]
          ELSE /\ poller' = [poller EXCEPT !.messages = rest]
               /\ UNCHANGED redpanda
    /\ UNCHANGED outbox_created

\* The batch is done: sleep(POLL_INTERVAL_SECS).
PollSleep ==
    /\ poller.pc = "batch"
    /\ poller.messages = <<>>
    /\ poller' = [poller EXCEPT !.pc = "sleep"]
    /\ UNCHANGED <<outbox_created, redpanda>>

\* start_cdc_monitoring with no stored offset: the checkpoint is the time
\* of the start, no id is seen, the outbox has no later row yet.
PollerInit ==
    /\ poller = [pc |-> "sleep", last_processed_time |-> 0, processed_ids |-> {},
                 messages |-> <<>>,
                 cdc_offsets |-> [last_processed_time |-> 0, last_event_id |-> 0]]
    /\ outbox_created = {}
    /\ redpanda = [up |-> FALSE, published |-> {}]

\* CoordinatorActor::new: no child yet.
CoordinatorInit ==
    /\ coordinator = [state |-> "Created", pc |-> 0]
    /\ shutdown_requests = 0
    /\ children = [c \in ChildActors |-> "None"]
    /\ stop_mailbox = [c \in ChildActors |-> 0]
    /\ stop_signals = <<>>
    /\ health_mailbox = <<>>

\* --------------------------------------------------------- specifications

\* The state of the components the store, breaker and relay specifications
\* leave alone.
restVars == <<retryVars, healthVars, coordVars, orderVars, loadVars, foldVars, taskVars, pollVars>>

RestInit == RetryInitWith({"retry_with_backoff"}, {AggressiveRetry}) /\ HealthInit /\ CoordinatorInit /\ HandlersInit /\ LoadInitWith({NoLoad}) /\ FoldInitWith({"Order"}) /\ TasksInit /\ PollerInit

vars == <<storeVars, cbVars, relayVars, restVars>>

Init == StoreInit /\ CBInit /\ RelayInit /\ RestInit

\* Concurrent callers of EventStore::append_events.
StoreNext ==
    \/ \E a \in Aggregates, v \in 0..MaxExpected, n \in 0..MaxEvents, pub \in BOOLEAN :
            AppendBegin(a, v, n, pub) /\ UNCHANGED <<cbVars, relayVars, restVars>>
    \/ \E req \in pending : AppendBatch(req) /\ UNCHANGED <<cbVars, relayVars, restVars>>
    \/ \E req \in pending : AppendBatchError(req) /\ UNCHANGED <<cbVars, relayVars, restVars>>
    \/ CallObserved /\ UNCHANGED <<cbVars, relayVars, restVars>>

SpecStore == Init /\ [][StoreNext]_vars

\* Concurrent callers of CircuitBreaker::call, reset, and the clock.
CBNext ==
    \/ \E c \in Callers : CallEnter(c) /\ UNCHANGED <<storeVars, relayVars, restVars>>
    \/ \E c \in Callers : CallSucceed(c) /\ UNCHANGED <<storeVars, relayVars, restVars>>
    \/ \E c \in Callers : CallFail(c) /\ UNCHANGED <<storeVars, relayVars, restVars>>
    \/ Reset /\ UNCHANGED <<storeVars, relayVars, restVars>>
    \/ Tick /\ UNCHANGED <<storeVars, relayVars, restVars>>

SpecCB == Init /\ [][CBNext]_vars

\* One consumer of the outbox CDC stream publishing through the broker
\* client's breaker, the DLQ actor, and the clock.
RelayNext ==
    \/ \E c \in Consumers, row \in CdcRows :
            ConsumeBegin(c, row) /\ UNCHANGED <<storeVars, cbVars, restVars>>
    \/ \E c \in Consumers : PublishAttempt(c) /\ UNCHANGED <<storeVars, restVars>>
    \/ \E c \in Consumers : SendOk(c) /\ UNCHANGED <<storeVars, restVars>>
    \/ \E c \in Consumers : SendFail(c) /\ UNCHANGED <<storeVars, restVars>>
    \/ \E c \in Consumers : Wake(c) /\ UNCHANGED <<storeVars, restVars>>
    \/ DlqInsert /\ UNCHANGED <<storeVars, cbVars, restVars>>
    \/ DlqInsertError /\ UNCHANGED <<storeVars, cbVars, restVars>>
    \/ Elapse /\ UNCHANGED <<storeVars, relayVars, restVars>>

RelaySpecInit == StoreInit /\ CBInitWith(RedpandaBreakerConfig) /\ RelayInit /\ RestInit

SpecRelay == RelaySpecInit /\ [][RelayNext]_vars

\* Two consumers of the reader, each in its own task, sharing the broker
\* client and the DLQ actor.
PoolNext ==
    \/ \E c \in ConsumerPool, row \in OutboxInserts :
            Deliver(c, row) /\ UNCHANGED <<storeVars, cbVars, restVars>>
    \/ \E c \in ConsumerPool : PublishAttempt(c) /\ UNCHANGED <<storeVars, restVars>>
    \/ \E c \in ConsumerPool : SendOk(c) /\ UNCHANGED <<storeVars, restVars>>
    \/ \E c \in ConsumerPool : SendFail(c) /\ UNCHANGED <<storeVars, restVars>>
    \/ \E c \in ConsumerPool : Wake(c) /\ UNCHANGED <<storeVars, restVars>>
    \/ DlqInsert /\ UNCHANGED <<storeVars, cbVars, restVars>>
    \/ DlqInsertError /\ UNCHANGED <<storeVars, cbVars, restVars>>
    \/ Elapse /\ UNCHANGED <<storeVars, relayVars, restVars>>

SpecPool == RelaySpecInit /\ [][PoolNext]_vars

\* A child takes the StopActor that waits in its mailbox.
StopHandled(c) ==
    HandleStopActor(c) /\ UNCHANGED <<storeVars, cbVars, relayVars, retryVars, orderVars, loadVars, foldVars, taskVars, pollVars>>

\* The coordinator stopping its children while the reader, the consumer and
\* the monitor's interval loop run. Mailboxes are served: a StopActor that
\* waits is handled.
ShutdownNext ==
    \/ CoordinatorStarted /\ UNCHANGED <<storeVars, cbVars, relayVars, retryVars, orderVars, loadVars, foldVars, taskVars, pollVars>>
    \/ HealthDeliver /\ UNCHANGED <<storeVars, cbVars, relayVars, retryVars, orderVars, loadVars, foldVars, taskVars, pollVars>>
    \/ SendShutdown /\ UNCHANGED <<storeVars, cbVars, relayVars, retryVars, orderVars, loadVars, foldVars, taskVars, pollVars>>
    \/ HandleShutdown /\ UNCHANGED <<storeVars, cbVars, relayVars, retryVars, orderVars, loadVars, foldVars, taskVars, pollVars>>
    \/ SendStop /\ UNCHANGED <<storeVars, cbVars, relayVars, retryVars, orderVars, loadVars, foldVars, taskVars, pollVars>>
    \/ CoordinatorStop /\ UNCHANGED <<storeVars, cbVars, relayVars, retryVars, orderVars, loadVars, foldVars, taskVars, pollVars>>
    \/ \E c \in ChildActors : StopHandled(c)
    \/ PeriodicProbe /\ UNCHANGED <<storeVars, cbVars, relayVars, retryVars, orderVars, loadVars, foldVars, pollVars>>
    \/ \E c \in Consumers, row \in StreamedRows :
            StreamRow(c, row) /\ UNCHANGED <<storeVars, cbVars, restVars>>
    \/ \E c \in Consumers : PublishAttempt(c) /\ UNCHANGED <<storeVars, restVars>>
    \/ \E c \in Consumers : SendOk(c) /\ UNCHANGED <<storeVars, restVars>>
    \/ \E c \in Consumers : SendFail(c) /\ UNCHANGED <<storeVars, restVars>>
    \/ \E c \in Consumers : Wake(c) /\ UNCHANGED <<storeVars, restVars>>
    \/ DlqHandle /\ UNCHANGED <<storeVars, cbVars, restVars>>

SpecShutdown ==
    /\ RelaySpecInit
    /\ [][ShutdownNext]_vars
    /\ \A c \in ChildActors : WF_vars(StopHandled(c))

\* One aggregate of either domain handling commands and folding the events
\* of the accepted ones.
DomainNext ==
    \/ \E cmd \in CommandsOf(fold.domain) :
            FoldFirst(cmd) /\ UNCHANGED <<storeVars, cbVars, relayVars, retryVars, healthVars, coordVars, orderVars, loadVars, taskVars, pollVars>>
    \/ \E cmd \in CommandsOf(fold.domain) :
            FoldCommand(cmd) /\ UNCHANGED <<storeVars, cbVars, relayVars, retryVars, healthVars, coordVars, orderVars, loadVars, taskVars, pollVars>>

DomainSpecInit ==
    StoreInit /\ CBInit /\ RelayInit /\ RetryInitWith({"retry_with_backoff"}, {AggressiveRetry})
       /\ HealthInit /\ CoordinatorInit /\ HandlersInit /\ LoadInitWith({NoLoad})
       /\ FoldInitWith(Domains) /\ TasksInit /\ PollerInit

SpecDomain == DomainSpecInit /\ [][DomainNext]_vars

\* One retry_with_backoff call for every config, with an operation that may
\* succeed or fail at each attempt and always returns.
RetryNext ==
    \/ RetryAttempt /\ UNCHANGED <<storeVars, cbVars, relayVars, healthVars, coordVars, orderVars, loadVars, foldVars, taskVars, pollVars>>
    \/ OperationOk /\ UNCHANGED <<storeVars, cbVars, relayVars, healthVars, coordVars, orderVars, loadVars, foldVars, taskVars, pollVars>>
    \/ \E e \in OperationErrors :
            OperationErr(e) /\ UNCHANGED <<storeVars, cbVars, relayVars, healthVars, coordVars, orderVars, loadVars, foldVars, taskVars, pollVars>>
    \/ RetryWake /\ UNCHANGED <<storeVars, cbVars, relayVars, healthVars, coordVars, orderVars, loadVars, foldVars, taskVars, pollVars>>

RetrySpecInit ==
    StoreInit /\ CBInit /\ RelayInit /\ RetryInitWith(RetryFunctions, RetryConfigs) /\ HealthInit /\ CoordinatorInit /\ HandlersInit /\ LoadInitWith({NoLoad}) /\ FoldInitWith({"Order"}) /\ TasksInit /\ PollerInit

\* UpdateHealth messages from any reporter, the periodic check and
\* GetSystemHealth requests, handled one at a time by the actor.
HealthNext ==
    \/ \E n \in ComponentNames, st \in HealthStatuses :
            UpdateHealth(n, st) /\ UNCHANGED <<storeVars, cbVars, relayVars, retryVars, coordVars, orderVars, loadVars, foldVars, taskVars, pollVars>>
    \/ RedpandaHealthCheck /\ UNCHANGED <<storeVars, cbVars, relayVars, retryVars, coordVars, orderVars, loadVars, foldVars, taskVars, pollVars>>
    \/ GetSystemHealth /\ UNCHANGED <<storeVars, cbVars, relayVars, retryVars, coordVars, orderVars, loadVars, foldVars, taskVars, pollVars>>

SpecHealth == Init /\ [][HealthNext]_vars

\* The coordinator, its children's stop handlers and the health monitor
\* behind it.
CoordinatorNext ==
    \/ CoordinatorStarted /\ UNCHANGED <<storeVars, cbVars, relayVars, retryVars, orderVars, loadVars, foldVars, taskVars, pollVars>>
    \/ HealthDeliver /\ UNCHANGED <<storeVars, cbVars, relayVars, retryVars, orderVars, loadVars, foldVars, taskVars, pollVars>>
    \/ CoordinatorHealthCheck /\ UNCHANGED <<storeVars, cbVars, relayVars, retryVars, orderVars, loadVars, foldVars, taskVars, pollVars>>
    \/ SendShutdown /\ UNCHANGED <<storeVars, cbVars, relayVars, retryVars, orderVars, loadVars, foldVars, taskVars, pollVars>>
    \/ HandleShutdown /\ UNCHANGED <<storeVars, cbVars, relayVars, retryVars, orderVars, loadVars, foldVars, taskVars, pollVars>>
    \/ SendStop /\ UNCHANGED <<storeVars, cbVars, relayVars, retryVars, orderVars, loadVars, foldVars, taskVars, pollVars>>
    \/ CoordinatorStop /\ UNCHANGED <<storeVars, cbVars, relayVars, retryVars, orderVars, loadVars, foldVars, taskVars, pollVars>>
    \/ \E c \in ChildActors :
            HandleStopActor(c) /\ UNCHANGED <<storeVars, cbVars, relayVars, retryVars, orderVars, loadVars, foldVars, taskVars, pollVars>>

SpecCoordinator == Init /\ [][CoordinatorNext]_vars

\* The command handlers of both domains over the one keyspace, and the
\* batches of their appends.
OrdersNext ==
    \/ \E h \in Handlers, d \in Domains, a \in Aggregates : \E cmd \in CommandsOf(d) :
            HandleLoad(h, d, a, cmd)
               /\ UNCHANGED <<cbVars, relayVars, retryVars, healthVars, coordVars, loadVars, foldVars, taskVars, pollVars>>
    \/ \E h \in Handlers :
            HandleAppend(h)
               /\ UNCHANGED <<cbVars, relayVars, retryVars, healthVars, coordVars, loadVars, foldVars, taskVars, pollVars>>
    \/ \E h \in Handlers :
            HandleReturn(h)
               /\ UNCHANGED <<cbVars, relayVars, retryVars, healthVars, coordVars, loadVars, foldVars, taskVars, pollVars>>
    \/ \E req \in pending :
            AppendBatch(req) /\ UNCHANGED <<cbVars, relayVars, restVars>>
    \/ \E req \in pending :
            AppendBatchError(req) /\ UNCHANGED <<cbVars, relayVars, restVars>>
    \/ CallObserved /\ UNCHANGED <<cbVars, relayVars, restVars>>

SpecOrders == Init /\ [][OrdersNext]_vars

\* Two callers of the order command handler on one order; a caller whose
\* call has returned may call again.
ConflictNext ==
    \/ \E h \in Handlers, cmd \in RetryCommands :
            HandleLoad(h, "Order", "A", cmd)
               /\ UNCHANGED <<cbVars, relayVars, retryVars, healthVars, coordVars, loadVars, foldVars, taskVars, pollVars>>
    \/ \E h \in Handlers :
            HandleAppendUpTo(MaxHandled, h)
               /\ UNCHANGED <<cbVars, relayVars, retryVars, healthVars, coordVars, loadVars, foldVars, taskVars, pollVars>>
    \/ \E h \in Handlers :
            HandleReturn(h)
               /\ UNCHANGED <<cbVars, relayVars, retryVars, healthVars, coordVars, loadVars, foldVars, taskVars, pollVars>>
    \/ \E h \in Handlers :
            HandleAgain(h)
               /\ UNCHANGED <<cbVars, relayVars, retryVars, healthVars, coordVars, loadVars, foldVars, taskVars, pollVars>>
    \/ \E req \in pending :
            AppendBatch(req) /\ UNCHANGED <<cbVars, relayVars, restVars>>
    \/ CallObserved /\ UNCHANGED <<cbVars, relayVars, restVars>>

SpecConflict == Init /\ [][ConflictNext]_vars

\* A step of the task start_cdc_monitoring spawned.
PollerRuns ==
    /\ PollFetch \/ PollPublish \/ PollSleep
    /\ UNCHANGED <<storeVars, cbVars, relayVars, retryVars, healthVars, coordVars,
                   orderVars, loadVars, foldVars, taskVars>>

\* The polling relay, the writers of the outbox and the broker.
PollingNext ==
    \/ OutboxRowCreated
          /\ UNCHANGED <<storeVars, cbVars, relayVars, retryVars, healthVars, coordVars, orderVars, loadVars, foldVars, taskVars>>
    \/ RedpandaSwitch
          /\ UNCHANGED <<storeVars, cbVars, relayVars, retryVars, healthVars, coordVars, orderVars, loadVars, foldVars, taskVars>>
    \/ PollFetch
          /\ UNCHANGED <<storeVars, cbVars, relayVars, retryVars, healthVars, coordVars, orderVars, loadVars, foldVars, taskVars>>
    \/ PollPublish
          /\ UNCHANGED <<storeVars, cbVars, relayVars, retryVars, healthVars, coordVars, orderVars, loadVars, foldVars, taskVars>>
    \/ PollSleep
          /\ UNCHANGED <<storeVars, cbVars, relayVars, retryVars, healthVars, coordVars, orderVars, loadVars, foldVars, taskVars>>

\* The spawned task is a loop without exit whose sleep ends: it always
\* takes its next step.
SpecPolling == Init /\ [][PollingNext]_vars /\ WF_vars(PollerRuns)

\* load_from_events on every envelope list of the bounds.
LoadNext ==
    LoadFromEvents
       /\ UNCHANGED <<storeVars, cbVars, relayVars, retryVars, healthVars, coordVars, orderVars, foldVars, taskVars, pollVars>>

LoadSpecInit ==
    StoreInit /\ CBInit /\ RelayInit /\ RetryInitWith({"retry_with_backoff"}, {AggressiveRetry})
       /\ HealthInit /\ CoordinatorInit /\ HandlersInit /\ LoadInitWith(LoadCalls) /\ FoldInitWith({"Order"}) /\ TasksInit /\ PollerInit

SpecLoad == LoadSpecInit /\ [][LoadNext]_vars

SpecRetry == RetrySpecInit /\ [][RetryNext]_vars /\ WF_vars(RetryNext)

\* ------------------------------------------------- event store properties

OpIds == 1..Len(ops)

RECURSIVE CommittedUpTo(_, _)
CommittedUpTo(a, k) ==
    IF k = 0 THEN 0
    ELSE CommittedUpTo(a, k - 1) +
         (IF ops[k].aggregate_id = a /\ ops[k].status = "ok" THEN ops[k].n ELSE 0)

\* The number of events of the append_events calls on a that returned Ok.
Committed(a) == CommittedUpTo(a, Len(ops))

HighestSequence(a) ==
    LET seqs == {r.sequence_number : r \in {q \in event_store : q.aggregate_id = a}}
    IN IF seqs = {} THEN 0 ELSE CHOOSE m \in seqs : \A x \in seqs : x <= m

StoreTables == <<event_store, outbox_messages, aggregate_sequence>>

\* C1: once every append_events call has returned, an aggregate whose
\* successful appends committed N events has current version N, load_events
\* returns N envelopes numbered 1..N in order, and every stored sequence number
\* is expected_version + i + 1 of its append (i counted from 0), whatever the
\* caller put in the envelope.
C1_VersionEqualsCommitted ==
    pending = {} =>
        /\ \A a \in Aggregates :
              LET evs == load_events(a)
              IN /\ get_current_version(a) = Committed(a)
                 /\ Len(evs) = Committed(a)
                 /\ \A i \in 1..Len(evs) : evs[i].sequence_number = i
        /\ \A r \in event_store :
              r.sequence_number = ops[r.op].expected_version + (r.idx - 1) + 1

\* C2 (as claimed): an append_events call made when the current version
\* differs from expected_version fails with a concurrency conflict, builds no
\* batch and changes none of the three tables.
C2_MismatchIsConflict ==
    /\ [](lastCall.mismatch => lastCall.result = "conflict")
    /\ [][(lastCall' # lastCall /\ lastCall'.mismatch)
             => (pending' = pending /\ StoreTables' = StoreTables)]_vars

\* C2 (amended): an append_events call made when the current version differs
\* from expected_version fails - with a concurrency conflict when the list is
\* not empty, with the empty-list error otherwise - builds no batch and
\* changes none of the three tables.
C2_MismatchFailsWritesNothing ==
    /\ [](lastCall.mismatch =>
             lastCall.result = (IF lastCall.empty THEN "empty" ELSE "conflict"))
    /\ [][(lastCall' # lastCall /\ lastCall'.mismatch)
             => (/\ pending' = pending
                 /\ ops' = ops
                 /\ StoreTables' = StoreTables)]_vars

\* A call with a stale expected_version was rejected with a conflict on an
\* aggregate that already has events.
C2_Witness ==
    /\ lastCall.mismatch
    /\ lastCall.result = "conflict"
    /\ event_store # {}
    /\ pending = {}

EventRowsOf(o) == {r \in event_store : r.op = o}
OutboxRowsOf(o) == {r \in outbox_messages : r.op = o}

\* C3: of two append_events calls for the same aggregate with the same
\* expected_version at most one returns Ok (the other fails with a conflict),
\* and the events of the one that returned Ok are the ones stored at its
\* sequence numbers.
C3_ExactlyOneWins ==
    \A i \in OpIds, j \in OpIds :
        (/\ i # j
         /\ ops[i].aggregate_id = ops[j].aggregate_id
         /\ ops[i].expected_version = ops[j].expected_version
         /\ ops[i].status = "ok")
        => /\ ops[j].status # "ok"
           /\ Cardinality(EventRowsOf(i)) = ops[i].n

\* C4: for every append_events call, either all of its event rows, all of
\* its outbox rows (when publish_to_outbox) and its sequence update are in
\* the tables, or none of them is.
C4_AllOrNothing ==
    \A o \in OpIds :
        \/ /\ Cardinality(EventRowsOf(o)) = ops[o].n
           /\ Cardinality(OutboxRowsOf(o)) = (IF ops[o].pub THEN ops[o].n ELSE 0)
           /\ get_current_version(ops[o].aggregate_id) >=
                  ops[o].expected_version + ops[o].n
        \/ /\ EventRowsOf(o) = {}
           /\ OutboxRowsOf(o) = {}
           /\ ops[o].status # "ok"

\* C5: every event row written with publish_to_outbox = true has exactly one
\* outbox row with its event_id, and an event row written with
\* publish_to_outbox = false has none.
C5_OneOutboxRowPerPublishedEvent ==
    \A r \in event_store :
        Cardinality({m \in outbox_messages : m.event_id = r.event_id}) =
            (IF r.pub THEN 1 ELSE 0)

\* Both kinds of append have committed: published events of a batch of two
\* and an unpublished event.
C5_Witness ==
    /\ \E r \in event_store : r.pub /\ r.idx = 2
    /\ \E r \in event_store : ~ r.pub
    /\ outbox_messages # {}

\* C6: current_sequence of an aggregate is never below the highest
\* sequence_number stored for it, and equals it right after a successful
\* append.
C6_SequenceDominates ==
    /\ [](\A a \in Aggregates : get_current_version(a) >= HighestSequence(a))
    /\ [][\A req \in pending :
            AppendBatch(req) =>
               get_current_version(req.aggregate_id)' =
                   HighestSequence(req.aggregate_id)']_vars

\* C31: append_events called with an empty envelope list fails with the
\* empty-list error whatever expected_version is, before the version is
\* compared: it builds no batch, draws no id and leaves event_store,
\* outbox_messages and aggregate_sequence as they were.
C31_EmptyListRejected ==
    /\ [](lastCall.empty => lastCall.result = "empty")
    /\ [][(lastCall' # lastCall /\ lastCall'.empty)
             => (/\ pending' = pending
                 /\ ops' = ops
                 /\ nextUuid' = nextUuid
                 /\ StoreTables' = StoreTables)]_vars

\* An empty list was rejected although its expected_version was the current
\* version of an aggregate that has events.
C31_Witness ==
    /\ lastCall.empty
    /\ ~lastCall.mismatch
    /\ lastCall.result = "empty"
    /\ event_store # {}
    /\ pending = {}

\* ----------------------------------------------------- relay properties

InsertOperations == {"RowInsert", "PostImage"}

Published(id) == \E rec \in broker : rec.key = UuidText(id)
InDlq(id) == \E r \in dead_letter_queue : r.id = id
InMailbox(id) == \E i \in 1..Len(dlq_mailbox) : dlq_mailbox[i].id = id

C8_NeverFailsUpward ==
    \A c \in Consumers : returned[c] # "Err"

\* ---------------------------------------------------- breaker properties

\* C9: a recorded failure that completes failure_threshold consecutive
\* failures leaves the breaker Open, and a call that finds the breaker Open
\* with less than open_timeout elapsed since the last failure returns
\* CircuitOpen, does not run the operation and leaves the breaker's state and
\* counters as they were.
C9_OpensAndRejects ==
    [][\A c \in Callers :
          /\ (CallFail(c) /\ consecutive' >= config.failure_threshold)
                => breaker'.state = "Open"
          /\ (/\ CallEnter(c)
              /\ breaker.state = "Open"
              /\ breaker.last_failure_time # None
              /\ now - breaker.last_failure_time < config.timeout)
                => /\ cresult'[c] = "CircuitOpen"
                   /\ cpc'[c] = "idle"
                   /\ breaker' = breaker]_vars

\* failure_threshold consecutive failures opened the breaker and a call was
\* rejected half a timeout later.
C9_Witness ==
    /\ breaker.state = "Open"
    /\ consecutive = config.failure_threshold
    /\ breaker.failure_count = config.failure_threshold
    /\ now > breaker.last_failure_time
    /\ \E c \in Callers : cresult[c] = "CircuitOpen"

\* C10: in HalfOpen one trial call is admitted: no two callers admitted in
\* HalfOpen have their operations in flight at the same time.
C10_SingleTrial ==
    \A c \in Callers, d \in Callers :
        (c # d /\ cpc[c] = "running" /\ cadmit[c] = "HalfOpen")
            => ~ (cpc[d] = "running" /\ cadmit[d] = "HalfOpen")

\* C22: the breaker goes from Closed to Open only in the step that records
\* the failure_threshold-th failure since the last recorded success or
\* reset, and that step records the failure time; in Closed failure_count is
\* the number of those failures, and a success recorded in Closed sets it to
\* 0 and leaves the breaker Closed.
C22_OpensOnConsecutiveFailures ==
    /\ [](breaker.state = "Closed" =>
             /\ breaker.failure_count = consecutive
             /\ breaker.failure_count < config.failure_threshold)
    /\ [][/\ (breaker.state = "Closed" /\ breaker'.state = "Open") =>
                /\ \E c \in Callers : CallFail(c)
                /\ consecutive' = config.failure_threshold
                /\ breaker'.last_failure_time = now
          /\ \A c \in Callers :
                (CallSucceed(c) /\ breaker.state = "Closed") =>
                    /\ breaker'.state = "Closed"
                    /\ breaker'.failure_count = 0]_vars

\* The breaker has just opened at the failure_threshold-th failure in a row,
\* with the failure time recorded, while a caller's last call succeeded.
C22_Witness ==
    /\ breaker.state = "Open"
    /\ breaker.failure_count = config.failure_threshold
    /\ consecutive = config.failure_threshold
    /\ breaker.last_failure_time = now
    /\ \E c \in Callers : cresult[c] = "Ok"

\* C23: a success recorded in HalfOpen closes the breaker exactly when it is
\* the success_threshold-th since the breaker became HalfOpen, and then both
\* counters are 0; otherwise it adds one to success_count; a failure
\* recorded in HalfOpen opens the breaker with success_count 0; the breaker
\* becomes HalfOpen with success_count 0.
C23_HalfOpenTransitions ==
    /\ [](breaker.state = "HalfOpen" => breaker.success_count < config.success_threshold)
    /\ [][/\ \A c \in Callers :
                /\ (CallSucceed(c) /\ breaker.state = "HalfOpen") =>
                      IF breaker.success_count + 1 = config.success_threshold
                      THEN /\ breaker'.state = "Closed"
                           /\ breaker'.failure_count = 0
                           /\ breaker'.success_count = 0
                      ELSE /\ breaker'.state = "HalfOpen"
                           /\ breaker'.success_count = breaker.success_count + 1
                /\ (CallFail(c) /\ breaker.state = "HalfOpen") =>
                      /\ breaker'.state = "Open"
                      /\ breaker'.success_count = 0
          /\ (breaker.state # "HalfOpen" /\ breaker'.state = "HalfOpen") =>
                breaker'.success_count = 0
          /\ (breaker.state = "HalfOpen" /\ breaker'.state = "Closed") =>
                \/ \E c \in Callers : CallSucceed(c)
                \/ Reset]_vars

\* The breaker has closed again with both counters 0, two timeouts or more
\* after the start, and the last call of every caller succeeded.
C23_Witness ==
    /\ breaker.state = "Closed"
    /\ breaker.failure_count = 0
    /\ breaker.success_count = 0
    /\ breaker.last_failure_time = None
    /\ now >= 2 * config.timeout
    /\ \A c \in Callers : cresult[c] = "Ok"

\* C24: a call that finds the breaker Open with at least open_timeout
\* elapsed since the last recorded failure makes it HalfOpen with
\* success_count 0 and runs its operation; an Open breaker always has a last
\* failure time, and it leaves Open only by such a call or by reset.
C24_OpenLeavesByProbeOrReset ==
    /\ [](breaker.state = "Open" => breaker.last_failure_time # None)
    /\ [][/\ \A c \in Callers :
                (/\ CallEnter(c)
                 /\ breaker.state = "Open"
                 /\ now - breaker.last_failure_time >= config.timeout)
                => /\ breaker' = [breaker EXCEPT !.state = "HalfOpen",
                                                 !.success_count = 0]
                   /\ cpc'[c] = "running"
          /\ (breaker.state = "Open" /\ breaker'.state # "Open") =>
                \/ /\ breaker'.state = "HalfOpen"
                   /\ now - breaker.last_failure_time >= config.timeout
                   /\ \E c \in Callers : CallEnter(c)
                \/ Reset]_vars

\* A call probed the breaker after the timeout: the breaker is HalfOpen, the
\* caller's operation is running, and another caller was rejected before.
C24_Witness ==
    /\ breaker.state = "HalfOpen"
    /\ breaker.success_count = 0
    /\ now - breaker.last_failure_time >= config.timeout
    /\ \E c \in Callers, d \in Callers :
          /\ cpc[c] = "running" /\ cadmit[c] = "HalfOpen"
          /\ cresult[d] = "CircuitOpen"

\* ------------------------------------------------------ retry properties

\* The attempt numbers passed to the operation are 1, 2, ..., k in order.
CallsInOrder == retry.calls = [i \in 1..Len(retry.calls) |-> i]

\* Success is returned at the first successful attempt: every earlier
\* attempt failed.
SuccessAtFirstOk ==
    retry.result = "Success" =>
        (retry.pc = "returned" /\ Len(retry.errors) = Len(retry.calls) - 1)

\* Failed carries the last error and comes after max_attempts failed calls.
FailedAfterMaxAttempts ==
    retry.result = "Failed" =>
        /\ retry.pc = "returned"
        /\ Len(retry.calls) = retry.config.max_attempts
        /\ Len(retry.errors) = retry.config.max_attempts
        /\ retry.error = retry.errors[Len(retry.errors)]

ClampedDelay(rc, k) ==
    LET grown == rc.initial_delay * rc.multiplier ^ (k - 1)
    IN IF grown <= rc.max_delay THEN grown ELSE rc.max_delay

\* One sleep follows every failed attempt but the last one of the call:
\* while the operation runs and once the call returned there is one sleep
\* less than attempts, during a sleep and before the next attempt as many.
OneSleepBetweenAttempts ==
    /\ retry.pc \in {"calling", "returned"} =>
           Len(retry.slept) = Len(retry.calls) - 1
    /\ (retry.pc \in {"sleeping", "loop"}) =>
           Len(retry.slept) = Len(retry.calls)
    /\ retry.config.max_attempts >= 1 =>
           Len(retry.slept) < retry.config.max_attempts
    /\ retry.config.max_attempts = 0 => retry.slept = <<>>

BackoffOnErr(r, e) ==
    IF r.attempt >= r.config.max_attempts
    THEN [r EXCEPT !.pc = "returned", !.result = "Failed", !.error = e,
                   !.errors = Append(@, e)]
    ELSE [r EXCEPT !.pc = "sleeping", !.errors = Append(@, e),
                   !.slept = Append(@, r.delay)]

\* The operation returned an error in this step.
ErrReturned == retry.pc = "calling" /\ Len(retry'.errors) = Len(retry.errors) + 1

\* C26: retry_on_transient returns PermanentFailure(error) as soon as an
\* attempt fails with an error that is not transient, at any attempt number
\* including the last, without a sleep and without calling the operation
\* again; an attempt failing with a transient error is treated as
\* retry_with_backoff treats a failure, and Failed comes after max_attempts
\* failures.
C26_PermanentShortCircuits ==
    /\ [](/\ retry.result = "PermanentFailure" =>
                /\ retry.function = "retry_on_transient"
                /\ retry.pc = "returned"
                /\ retry.error = retry.errors[Len(retry.errors)]
                /\ ~is_transient(retry.error)
                /\ Len(retry.errors) = Len(retry.calls)
                /\ Len(retry.slept) = Len(retry.calls) - 1
          /\ (retry.function = "retry_on_transient" /\ retry.result = "Failed") =>
                /\ Len(retry.errors) >= retry.config.max_attempts
                /\ \A k \in 1..Len(retry.errors) : is_transient(retry.errors[k]))
    /\ [][(retry.function = "retry_on_transient" /\ ErrReturned) =>
             LET e == retry'.errors[Len(retry'.errors)]
             IN IF is_transient(e)
                THEN retry' = BackoffOnErr(retry, e)
                ELSE /\ retry'.result = "PermanentFailure"
                     /\ retry'.error = e
                     /\ retry'.pc = "returned"
                     /\ retry'.slept = retry.slept
                     /\ retry'.calls = retry.calls]_vars
    /\ [][retry.pc = "returned" => retry' = retry]_vars

\* A permanent error at the last allowed attempt, after a transient one:
\* PermanentFailure, not Failed, is returned.
C26_Witness ==
    /\ retry.function = "retry_on_transient"
    /\ retry.config = ConservativeRetry
    /\ retry.result = "PermanentFailure"
    /\ Len(retry.calls) = 2
    /\ retry.errors = <<"temporary failure", "persistent failure">>
    /\ retry.slept = <<200>>

\* The CDC operations whose rows carry an outbox event to publish.
PublishedOperations == {"RowInsert", "PostImage"}

\* C27: the relay publishes only for CDC rows whose operation is a row
\* insert or a post-image: only such a row enters the retried publish, and a
\* record reaches the broker only from such a row; consume_cdc called with a
\* row of any other operation publishes nothing, tells the DLQ actor
\* nothing, leaves the dead letter queue alone and returns Ok at once.
C27_OnlyInsertsArePublished ==
    /\ [](\A c \in Consumers :
             rpc[c] # "idle" => rrow[c].operation \in PublishedOperations)
    /\ [][/\ broker' # broker =>
                \E c \in Consumers :
                    /\ rrow[c].operation \in PublishedOperations
                    /\ broker' = broker \cup {BrokerRecord(rrow[c])}
          /\ \A c \in Consumers, row \in CdcRows :
                (ConsumeBegin(c, row) /\ row.operation \notin PublishedOperations) =>
                    /\ broker' = broker
                    /\ dlq_mailbox' = dlq_mailbox
                    /\ dead_letter_queue' = dead_letter_queue
                    /\ dlq_lost' = dlq_lost
                    /\ rpc'[c] = "idle"
                    /\ returned'[c] = "Ok"
                    /\ UNCHANGED <<breaker, cpc, cadmit, cresult, consecutive>>]_vars

\* A post-image was published and an update of the same outbox row was then
\* skipped with Ok: the broker holds the one record and no DLQ message exists.
C27_Witness ==
    /\ \E f \in finished : f.operation = "PostImage" /\ f.outcome = "Success"
    /\ \E f \in finished : f.operation = "RowUpdate" /\ f.outcome = "Skipped"
    /\ returned["c1"] = "Ok"
    /\ Cardinality(broker) = 1
    /\ dlq_mailbox = <<>>
    /\ dead_letter_queue = {}

\* The outcome of the outbox row id is final: published, or told to the DLQ
\* actor after the last attempt.
OutcomeFinal(id) ==
    \E f \in finished : f.id = id /\ f.outcome \in {"Success", "Failed"}

\* C28: the relay preserves the order of the events of one aggregate: a
\* publish attempt for an outbox row starts only when the outcome of every
\* row of the same aggregate written before it is final, so a later row's
\* record never reaches the broker before an earlier row's outcome; and a
\* consumer takes a row only when it is idle.
C28_PerAggregateOrder ==
    /\ [][\A c \in ConsumerPool :
             /\ attempt'[c] = attempt[c] + 1 =>
                   \A r \in OutboxInserts :
                       WrittenBefore(r, rrow[c]) => OutcomeFinal(r.id)
             /\ (rpc[c] # "idle" /\ rrow'[c] # rrow[c]) => rpc'[c] = "idle"]_vars
    /\ [](\A r1, r2 \in OutboxInserts :
             (WrittenBefore(r1, r2) /\ BrokerRecord(r2) \in broker) =>
                 OutcomeFinal(r1.id))

\* The retry of consumer c ends in this step.
RetryEnds(c) == rpc[c] \in {"loop", "sending"} /\ rpc'[c] = "idle"

\* The error of the attempt consumer c made in this step.
LastError(c) ==
    IF cresult'[c] = "CircuitOpen"
    THEN "Circuit breaker open for Redpanda"
    ELSE "Kafka send error"

\* C12: when the retried publish of a row ends in Failed the relay sends
\* exactly one AddToDlq with the row's id, aggregate_id, event_type and
\* payload, failure_count = max_attempts = 5, the last error and the time
\* taken when the retry started; when it ends in Success it sends none, and
\* nothing else sends an AddToDlq.
C12_OneAddToDlqOnFailure ==
    [][/\ \A c \in Consumers :
            /\ (RetryEnds(c) /\ cresult'[c] # "Ok") =>
                  /\ attempt'[c] = AggressiveRetry.max_attempts
                  /\ dlq_mailbox' = Append(dlq_mailbox,
                        [id |-> rrow[c].id,
                         aggregate_id |-> rrow[c].aggregate_id,
                         event_type |-> rrow[c].event_type,
                         payload |-> rrow[c].payload,
                         error_message |-> LastError(c),
                         failure_count |-> 5,
                         first_failed_at |-> first_attempt_time[c]])
            /\ (RetryEnds(c) /\ cresult'[c] = "Ok") => dlq_mailbox' = dlq_mailbox
            /\ (rpc[c] = "idle" /\ rpc'[c] = "loop") => first_attempt_time'[c] = now
            /\ rpc[c] # "idle" /\ rpc'[c] # "idle" =>
                  first_attempt_time'[c] = first_attempt_time[c]
       /\ Len(dlq_mailbox') > Len(dlq_mailbox) =>
             \E c \in Consumers : RetryEnds(c) /\ cresult'[c] # "Ok"]_vars

\* An AddToDlq for a row whose retry started after the clock had advanced is
\* in the mailbox, and a row was published before.
C12_Witness ==
    /\ \E i \in 1..Len(dlq_mailbox) :
          /\ dlq_mailbox[i].first_failed_at > 0
          /\ dlq_mailbox[i].failure_count = 5
    /\ broker # {}

\* C13: every record the broker accepted has the topic stored in the outbox
\* row it was published for, the text of the row's id as key and the row's
\* payload.
C13_BrokerRecordFromOutboxRow ==
    [][\A c \in Consumers :
          (RetryEnds(c) /\ cresult'[c] = "Ok") =>
              broker' = broker \cup {[topic |-> rrow[c].topic,
                                      key |-> UuidText(rrow[c].id),
                                      payload |-> rrow[c].payload]}]_vars

\* C14: an attempt rejected by the open breaker is the last attempt for its
\* event: the retry ends in that step and the event is sent to the DLQ.
C14_CircuitOpenShortCircuits ==
    [][\A c \in Consumers :
          (rpc[c] = "loop" /\ attempt'[c] = attempt[c] + 1
              /\ cresult'[c] = "CircuitOpen")
            => (/\ rpc'[c] = "idle"
                /\ Len(dlq_mailbox') = Len(dlq_mailbox) + 1)]_vars

\* ------------------------------------------------------ health properties

\* C15: the overall status of every SystemHealth reply is computed from the
\* latest status reported for each component when the request was handled:
\* Unhealthy if any is Unhealthy, else Degraded if any is Degraded, else
\* Healthy; and an UpdateHealth replaces the entry of one component only.
C15_OverallFromLatest ==
    /\ [][system_health' # system_health =>
             /\ system_health'.components = latest_update
             /\ system_health'.overall_status =
                   (IF \E n \in ComponentNames : latest_update[n] = "Unhealthy"
                    THEN "Unhealthy"
                    ELSE IF \E n \in ComponentNames : latest_update[n] = "Degraded"
                    THEN "Degraded"
                    ELSE "Healthy")]_vars
    /\ [][Cardinality({n \in ComponentNames : components'[n] # components[n]}) <= 1]_vars
    /\ [](components = latest_update)

\* A reply was Degraded with a degraded and a healthy component, after the
\* degraded component had been Unhealthy in an earlier reply.
C15_Witness ==
    /\ system_health.asked
    /\ system_health.overall_status = "Degraded"
    /\ system_health.components["redpanda"] = "Degraded"
    /\ system_health.components["cdc_processor"] = "Healthy"
    /\ components["redpanda"] = "Unhealthy"

\* ------------------------------------------------- coordinator properties

\* C20: the stop signals go to the CDC relay, then the DLQ actor, then the
\* health monitor, each child gets at most one, none before its predecessor
\* got its own, and the coordinator stops only after all three were sent.
C20_StopInOrder ==
    /\ \E k \in 0..3 :
          stop_signals = SubSeq(<<"cdc_processor", "dlq_actor", "health_monitor">>, 1, k)
    /\ coordinator.state = "Stopped" =>
          stop_signals = <<"cdc_processor", "dlq_actor", "health_monitor">>
    /\ \A c \in ChildActors :
          stop_mailbox[c] + (IF children[c] = "Stopped" THEN 1 ELSE 0)
             = Cardinality({i \in 1..Len(stop_signals) : stop_signals[i] = c})

\* The coordinator has stopped after one Shutdown, the relay has already
\* handled its stop signal and a second Shutdown is still in the mailbox.
C20_Witness ==
    /\ coordinator.state = "Stopped"
    /\ Len(stop_signals) = 3
    /\ children["cdc_processor"] = "Stopped"
    /\ shutdown_requests > 0

\* ------------------------------------------------ command handler properties

StoreTablesUnchanged ==
    UNCHANGED <<event_store, outbox_messages, aggregate_sequence, pending>>

\* C16: a command other than CreateOrder / RegisterCustomer, handled for an
\* aggregate that had no events when the handler looked, ends at once with
\* the aggregate-does-not-exist error, never reaches append_events, and the
\* step that handles it writes nothing.
C16_MissingAggregateRejected ==
    /\ [](\A h \in Handlers :
            (/\ handlers[h].pc # "idle"
             /\ ~ handlers[h].had_events
             /\ handlers[h].command.name \notin {"CreateOrder", "RegisterCustomer"})
            => /\ handlers[h].pc = "returned"
               /\ handlers[h].result = HandlerErr("AggregateDoesNotExist", "none")
               /\ handlers[h].op = 0)
    /\ [][\A h \in Handlers :
            (handlers[h].pc = "idle" /\ handlers'[h].pc = "returned")
            => StoreTablesUnchanged]_vars

\* ConfirmOrder was refused for an aggregate without events while the store
\* already held another aggregate.
C16_Witness ==
    \E h \in Handlers :
        /\ handlers[h].command.name = "ConfirmOrder"
        /\ handlers[h].result.error = "AggregateDoesNotExist"
        /\ event_store # {}

\* C17: a command handle_command rejects ends with the command-failed error
\* that carries the business-rule error, never reaches append_events, and
\* the step leaves every table and the current version as they were;
\* ShipOrder on an order in status Created is rejected with NotConfirmed.
C17_RejectionWritesNothing ==
    /\ [](\A h \in Handlers :
            /\ handlers[h].result.error = "CommandFailed"
                  => handlers[h].pc = "returned" /\ handlers[h].op = 0
            /\ (/\ handlers[h].pc # "idle"
                /\ handlers[h].command.name = "ShipOrder"
                /\ handlers[h].status = "Created")
                  => handlers[h].result = HandlerErr("CommandFailed", "NotConfirmed"))
    /\ [][\A h \in Handlers :
            (handlers[h].pc = "idle" /\ handlers'[h].result.error = "CommandFailed")
            => /\ StoreTablesUnchanged
               /\ \A a \in Aggregates :
                     get_current_version(a)' = get_current_version(a)]_vars

\* ShipOrder was rejected with NotConfirmed for an order that exists in
\* status Created.
C17_Witness ==
    \E h \in Handlers :
        /\ handlers[h].command.name = "ShipOrder"
        /\ handlers[h].had_events
        /\ handlers[h].status = "Created"
        /\ handlers[h].result = HandlerErr("CommandFailed", "NotConfirmed")
        /\ get_current_version(handlers[h].aggregate_id) = 1

\* A CreateOrder with valid items for an order id that had no events.
IsFirstCreate(h) ==
    /\ handlers[h].pc # "idle"
    /\ handlers[h].domain = "Order"
    /\ handlers[h].command.name = "CreateOrder"
    /\ handlers[h].command.items = <<1>>
    /\ ~ handlers[h].had_events

\* C18: a valid CreateOrder for an order id without events returns 1 unless
\* append_events itself fails, and its batch writes exactly one event_store
\* row (sequence 1, OrderCreated) and exactly one outbox row with the same
\* event_id and event_type, the aggregate id's text as partition_key, the
\* topic order-events and attempts 0, and sets the current version to 1.
C18_CreateOrderWrites ==
    /\ [](\A h \in Handlers :
            (IsFirstCreate(h) /\ handlers[h].pc = "returned")
            => \/ handlers[h].result = HandlerOk(1)
               \/ handlers[h].result.error \in {"ConcurrencyConflict", "StorageError"})
    /\ [][\A h \in Handlers :
            (/\ IsFirstCreate(h)
             /\ handlers[h].pc = "batch"
             /\ ops[handlers[h].op].status = "pending"
             /\ ops'[handlers[h].op].status = "ok")
            => /\ get_current_version(handlers[h].aggregate_id)' = 1
               /\ \E e \in event_store' : \E o \in outbox_messages' :
                     /\ event_store' \ event_store = {e}
                     /\ outbox_messages' \ outbox_messages = {o}
                     /\ e.aggregate_id = handlers[h].aggregate_id
                     /\ e.sequence_number = 1
                     /\ e.event_type = "OrderCreated"
                     /\ o.aggregate_id = handlers[h].aggregate_id
                     /\ o.event_id = e.event_id
                     /\ o.event_type = "OrderCreated"
                     /\ o.partition_key = UuidText(handlers[h].aggregate_id)
                     /\ o.topic = "order-events"
                     /\ o.attempts = 0]_vars

\* A first CreateOrder returned 1 and its rows are in the tables.
C18_Witness ==
    \E h \in Handlers :
        /\ IsFirstCreate(h)
        /\ handlers[h].result = HandlerOk(1)
        /\ Cardinality({e \in event_store : e.aggregate_id = handlers[h].aggregate_id}) = 1
        /\ Cardinality({o \in outbox_messages : o.aggregate_id = handlers[h].aggregate_id}) = 1

\* ------------------------------------------------ load_from_events properties

\* C19: load_from_events fails on the empty list and on a first event that
\* is not the birth event; otherwise it returns the aggregate obtained by
\* apply_first_event and apply_event in order, with the version of the last
\* envelope's sequence_number, for every implementation, the default of the
\* trait included.
C19_VersionIsLastSequence ==
    load.pc = "returned" =>
        IF load.events = <<>> THEN ~ load.result.ok
        ELSE IF ~ apply_first_event(load.domain, load.events[1].event_data).ok
        THEN ~ load.result.ok
        ELSE /\ load.result.ok
             /\ load.result.value.version
                   = load.events[Len(load.events)].sequence_number
             /\ load.result.value.status
                   = DefaultApplyRemaining(load.domain,
                        apply_first_event(load.domain, load.events[1].event_data).value,
                        load.events, 2).status

\* --------------------------------------------------- aggregate properties

\* A command was accepted in this step and its events were applied to an
\* aggregate that existed before.
EventsApplied == fold.born /\ fold'.steps = fold.steps + 1 /\ fold'.result.ok

\* C29: apply_event folds the event into the state and advances the version
\* of the aggregate by exactly one, for the aggregates of both domains; the
\* state and version after it depend on the state before and the event only.
C29_ApplyEventAdvancesVersion ==
    [][EventsApplied =>
          /\ Len(fold'.applied) = 1
          /\ fold'.aggregate = apply_event(fold.domain, fold.aggregate, fold'.applied[1])
          /\ fold'.aggregate.version = fold.aggregate.version + 1]_vars

\* The statuses an order can move between.
OrderTransitions ==
    {<<"Created", "Confirmed">>, <<"Confirmed", "Shipped">>, <<"Shipped", "Delivered">>,
     <<"Created", "Cancelled">>, <<"Confirmed", "Cancelled">>, <<"Shipped", "Cancelled">>}

\* The order handled command name in this step and accepted it.
Accepted(name) == fold'.command.name = name /\ fold'.result.ok

\* The order handled command name in this step and refused it with error e.
Refused(name, e) ==
    fold'.command.name = name /\ ~fold'.result.ok /\ fold'.result.error = e

\* C30: an order reached by folding accepted events accepts ConfirmOrder
\* only in Created, ShipOrder only in Confirmed (NotConfirmed in Created),
\* DeliverOrder only in Shipped (NotShipped otherwise), UpdateItems only in
\* Created, CancelOrder only in Created, Confirmed or Shipped
\* (AlreadyCancelled in Cancelled, InvalidStatusTransition in Delivered); its
\* status moves only Created -> Confirmed -> Shipped -> Delivered or to
\* Cancelled, and never leaves Delivered or Cancelled.
C30_OrderStatusMachine ==
    [][(fold.domain = "Order" /\ fold.born /\ fold'.steps = fold.steps + 1) =>
          LET status == fold.aggregate.status
              name == fold'.command.name
          IN /\ name = "ConfirmOrder" => (fold'.result.ok <=> status = "Created")
             /\ name = "ShipOrder" =>
                    /\ fold'.result.ok <=> status = "Confirmed"
                    /\ status = "Created" => Refused("ShipOrder", "NotConfirmed")
             /\ name = "DeliverOrder" =>
                    /\ fold'.result.ok <=> status = "Shipped"
                    /\ status # "Shipped" => Refused("DeliverOrder", "NotShipped")
             /\ Accepted("UpdateItems") => status = "Created"
             /\ name = "CancelOrder" =>
                    /\ fold'.result.ok <=> status \in {"Created", "Confirmed", "Shipped"}
                    /\ status = "Cancelled" => Refused("CancelOrder", "AlreadyCancelled")
                    /\ status = "Delivered" =>
                           Refused("CancelOrder", "InvalidStatusTransition")
             /\ \/ fold'.aggregate.status = status
                \/ <<status, fold'.aggregate.status>> \in OrderTransitions
             /\ status \in {"Delivered", "Cancelled"} =>
                    fold'.aggregate.status = status]_vars

\* A delivered order, reached by four accepted commands, refused its
\* cancellation and stayed delivered.
C30_Witness ==
    /\ fold.domain = "Order"
    /\ fold.steps = 5
    /\ fold.before.status = "Delivered"
    /\ fold.command.name = "CancelOrder"
    /\ fold.result = Err("InvalidStatusTransition")
    /\ fold.aggregate.status = "Delivered"

\* ---------------------------------------------------- shutdown properties

\* C21: a stop signal makes a supervised component end in order. Once the
\* CDC processor has stopped, the consumer finishes the row it is at and
\* takes no further row; once the DLQ actor has stopped nothing more is
\* inserted in the dead letter queue; once the health monitor has stopped
\* its periodic probe makes no further tick; and every child that was sent
\* StopActor eventually stops.
C21_OrderlyTermination ==
    /\ [][/\ children["cdc_processor"] = "Stopped" =>
                /\ consumed' = consumed
                /\ \A c \in Consumers : rpc[c] = "idle" => rpc'[c] = "idle"
          /\ children["dlq_actor"] = "Stopped" =>
                dead_letter_queue' = dead_letter_queue
          /\ children["health_monitor"] = "Stopped" => probes' = probes]_vars
    /\ \A c \in ChildActors :
          (stop_mailbox[c] > 0) ~> (children[c] = "Stopped")

\* ------------------------------------------------ optimistic retry properties

\* No other writer is active on the aggregates: no batch waits to be
\* executed and no other handler call is between its load and its return.
NoOtherWriter(h) ==
    /\ pending = {}
    /\ \A g \in Handlers \ {h} : handlers[g].pc \in {"idle", "returned"}

\* C32: a caller that reloads the aggregate and submits its command again
\* while no other writer is active gets no concurrency conflict: the version
\* the handler takes from the reloaded aggregate is the version
\* append_events compares it with, and the append that follows is not
\* rejected with a conflict; so no store state, also none left by racing
\* appends, makes every later command fail with a conflict.
C32_RetryAfterConflictSucceeds ==
    [][\A h \in Handlers :
          /\ (/\ handlers[h].pc = "idle"
              /\ handlers'[h].pc = "append"
              /\ handlers'[h].had_events
              /\ NoOtherWriter(h)) =>
                 handlers'[h].expected_version =
                     get_current_version(handlers'[h].aggregate_id)
          /\ (/\ handlers[h].pc = "append"
              /\ handlers'[h].pc = "returned"
              /\ handlers[h].expected_version =
                     get_current_version(handlers[h].aggregate_id)) =>
                 handlers'[h].result.error # "ConcurrencyConflict"]_vars

\* ------------------------------------------------ polling relay properties

\* C33: an outbox message whose publish failed is attempted again on a later
\* poll: once the broker accepts publishes for good, every outbox row
\* created after the starting checkpoint is eventually published, also when
\* a later row of the same batch was published before it.
C33_FailedPublishRetried ==
    (<>[]redpanda.up) =>
        \A id \in 1..MaxPolled :
            []((\E r \in outbox_created : r.id = id) => <>(id \in redpanda.published))

\* ------------------------------------------------ birth event properties

\* C34: whatever commands the order command handler has handled, the birth
\* event of an order is the event at sequence_number 1 and no other: no
\* OrderCreated row sits at a later sequence_number, since a CreateOrder for
\* an order that has events appends nothing.
C34_OneBirthEvent ==
    \A r \in event_store :
        r.event_type = "OrderCreated" => r.sequence_number = 1

\* ------------------------------------------------ outbox mirror properties

\* C35: in every reachable state, also after racing appends, every
\* outbox_messages row refers to an event that is in event_store: a row
\* with the same event_id, aggregate_id and event_type.
C35_OutboxRowHasEvent ==
    \A o \in outbox_messages :
        \E e \in event_store : /\ e.event_id = o.event_id
                                /\ e.aggregate_id = o.aggregate_id
                                /\ e.event_type = o.event_type

\* ------------------------------------------------ DLQ count properties

\* C36: a DLQ record stands for max_attempts sends that reached the
\* producer: attempts the open breaker rejected are not among the attempts
\* its failure_count counts. So the attempt that exhausts the retries and
\* tells the event to the DLQ is a send that failed, never a rejection.
C36_DlqCountsRealSends ==
    [][\A c \in Consumers :
          (/\ Len(dlq_mailbox') > Len(dlq_mailbox)
           /\ rpc[c] # "idle"
           /\ rpc'[c] = "idle") =>
              /\ rpc[c] = "sending"
              /\ dlq_mailbox'[Len(dlq_mailbox')].failure_count = attempt'[c]
              /\ dlq_mailbox'[Len(dlq_mailbox')].error_message = "Kafka send error"]_vars

\* ------------------------------------------------ no-op command properties

\* C37: a command for which handle_command returns an empty event list is
\* handled without error and without writing: handle returns Ok with the
\* aggregate's current version and the tables are unchanged.
C37_NoOpCommandSucceeds ==
    [][\A h \in Handlers :
          (/\ handlers[h].pc = "append"
           /\ handlers[h].events = <<>>
           /\ handlers'[h].pc = "returned") =>
              /\ handlers'[h].result.ok
              /\ handlers'[h].result.value = handlers[h].expected_version
              /\ StoreTables' = StoreTables]_vars

\* ------------------------------------------------ open breaker properties

\* C38: under every interleaving of concurrent calls and reset, an Open
\* breaker has its last_failure_time set, and a call that finds the breaker
\* Open is rejected or moves it to HalfOpen: no call runs its operation
\* having left the breaker Open.
C38_OpenHasFailureTime ==
    /\ [](breaker.state = "Open" => breaker.last_failure_time # None)
    /\ [][\A c \in Callers :
            (/\ breaker.state = "Open"
             /\ cpc[c] = "idle"
             /\ cpc'[c] = "running") =>
                /\ TimeoutElapsed(breaker)
                /\ breaker'.state = "HalfOpen"]_vars

\* One call has found the breaker Open after the timeout and runs as the
\* probe, another has been rejected by the Open breaker.
C38_Witness ==
    /\ cpc["c1"] = "running" /\ cadmit["c1"] = "HalfOpen"
    /\ cresult["c2"] = "CircuitOpen"
    /\ breaker.state = "HalfOpen"
    /\ breaker.last_failure_time # None

\* ------------------------------------------------ late outcome properties

\* A call that was admitted returns while the breaker is Open.
LateOutcome(c) ==
    /\ breaker.state = "Open"
    /\ cpc[c] = "running"
    /\ cpc'[c] = "idle"

AggregateRows(a) == {r \in event_store : r.aggregate_id = a}

\* The append is the only one on its aggregate.
OnlyAppendOn(i) ==
    \A j \in DOMAIN ops : j # i => ops[j].aggregate_id # ops[i].aggregate_id

\* C40: aggregates are isolated. A call of append_events for aggregate A
\* whose expected_version is A's current version is not rejected, whatever
\* is stored or pending for another aggregate; its batch leaves the event
\* rows and the current_sequence of every other aggregate as they are; and
\* an append that is the only one on its aggregate succeeds with all its
\* events stored under its numbers, however appends on other aggregates are
\* interleaved with it.
C40_AggregatesIsolated ==
    /\ [](\A i \in DOMAIN ops :
            (ops[i].status = "ok" /\ OnlyAppendOn(i)) =>
               /\ get_current_version(ops[i].aggregate_id) =
                      ops[i].expected_version + ops[i].n
               /\ {r.sequence_number : r \in AggregateRows(ops[i].aggregate_id)} =
                      (ops[i].expected_version + 1)..(ops[i].expected_version + ops[i].n)
               /\ \A r \in AggregateRows(ops[i].aggregate_id) : r.op = i)
    /\ [][/\ (lastCall = NoCall /\ lastCall' # NoCall) =>
               /\ \A b \in Aggregates :
                      /\ AggregateRows(b)' = AggregateRows(b)
                      /\ get_current_version(b)' = get_current_version(b)
               /\ (~lastCall'.mismatch /\ ~lastCall'.empty) => lastCall'.result = "batch"
          /\ \A req \in pending :
               pending' = pending \ {req} =>
                  \A b \in Aggregates \ {req.aggregate_id} :
                      /\ AggregateRows(b)' = AggregateRows(b)
                      /\ get_current_version(b)' = get_current_version(b)]_vars

\* Two appends on different aggregates ran concurrently: the batch of the
\* call that was checked second has succeeded while the batch of the first
\* is still to run.
C40_Witness ==
    /\ Len(ops) = 2
    /\ ops[1].aggregate_id # ops[2].aggregate_id
    /\ ops[1].status = "pending" /\ ops[2].status = "ok"
    /\ AggregateRows(ops[2].aggregate_id) # {}
    /\ AggregateRows(ops[1].aggregate_id) = {}

====
